---- MODULE Spec2Model ----
(***************************************************************************)
(* A model of src/engine/Transaction.c: the Transaction/Split data model,  *)
(* the double-entry rebalancer, the edit-session life cycle and the        *)
(* canonical ordering.                                                     *)
(*                                                                         *)
(* Pointers are identifiers (NULL is 0).  A C string is a TLA+ string, the *)
(* null string pointer is NullStr.  A double is an exact rational <<n,d>>  *)
(* in lowest terms; the result of a division by zero (inf or NaN, which    *)
(* no later +, *, / or unary - of this file turns back into a finite       *)
(* number) is the single value NonFinite.  A failed assert() or a trap     *)
(* ends the process: it is recorded in `fatal` and no operation runs       *)
(* afterwards.                                                             *)
(***************************************************************************)
EXTENDS Integers, Sequences, FiniteSets, TLC

VARIABLES
  splits,              \* split id -> Split structure
  trans,               \* transaction id -> Transaction structure
  accts,               \* account id -> the fields of Account this file uses
  journal,             \* the records written by xaccTransWriteLog, in order
  force_double_entry,  \* the global enforcement switch
  nest,                \* the branches the rebalances of the last operation took
  fatal,               \* NoFatal, or why the process was aborted
  calls,               \* collaborator calls made by the last operation
  last                 \* the last operation and its arguments

vars == <<splits, trans, accts, journal, force_double_entry, nest, fatal, calls, last>>

----------------------------------------------------------------------------
(* Bounds of the model *)

MaxSplits == 4       \* splits that can ever be allocated
MaxTrans == 3        \* transactions that can ever be allocated
MaxJournal == 2      \* journal records that can be written
MaxAmount == 2       \* largest |quantity| kept in the model
MaxDen == 2          \* largest denominator of a quantity kept in the model

SplitIds == 1..MaxSplits
TransIds == 1..MaxTrans

(* Input domains *)
InAmounts == {<<0, 1>>, <<1, 1>>, <<2, 1>>}
InPrices == {<<0, 1>>, <<1, 1>>, <<2, 1>>}
InStrings == {"", "a"}
InSecs == {0, 1}

----------------------------------------------------------------------------
(* Program constants *)

NULL == 0
NullStr == "NULL"
BEGIN_EDIT == 1
DEFER_REBALANCE == 2
ACC_DEFER_REBALANCE == 2
EpsInverse == 1000000

NoFatal == "none"

(* x & bit, for the single-bit masks used here *)
HasBit(x, bit) == (x \div bit) % 2 = 1
ClearBit(x, bit) == IF HasBit(x, bit) THEN x - bit ELSE x
SetBit(x, bit) == IF HasBit(x, bit) THEN x ELSE x + bit

----------------------------------------------------------------------------
(* double arithmetic *)

Abs(x) == IF x < 0 THEN -x ELSE x

RECURSIVE GCD(_, _)
GCD(a, b) == IF b = 0 THEN a ELSE GCD(b, a % b)

NonFinite == <<0, 0>>
IsFinite(x) == x[2] # 0

Norm(n, d) ==
  IF d = 0 THEN NonFinite
  ELSE LET g == GCD(Abs(n), Abs(d))
       IN  IF d < 0 THEN <<(-n) \div g, (-d) \div g>> ELSE <<n \div g, d \div g>>

DZero == <<0, 1>>
DOne == <<1, 1>>

DNeg(x) == IF IsFinite(x) THEN <<-x[1], x[2]>> ELSE NonFinite

DAdd(x, y) ==
  IF IsFinite(x) /\ IsFinite(y) THEN Norm(x[1] * y[2] + y[1] * x[2], x[2] * y[2])
  ELSE NonFinite

DMul(x, y) ==
  IF IsFinite(x) /\ IsFinite(y) THEN Norm(x[1] * y[1], x[2] * y[2])
  ELSE NonFinite

(* x / y; a divisor is always a share_price, which is finite *)
DDiv(x, y) ==
  IF IsFinite(x) /\ IsFinite(y) /\ y[1] # 0 THEN Norm(x[1] * y[2], x[2] * y[1])
  ELSE NonFinite

(* util.h: |x - y| < EPS, false when either side is not finite *)
DEQ(x, y) ==
  LET diff == DAdd(x, DNeg(y))
  IN  IsFinite(diff) /\ Abs(diff[1]) * EpsInverse < diff[2]

----------------------------------------------------------------------------
(* strings *)

StrOrder == <<"", "EUR", "IBM", "USD", "a", "b">>

StrRank(s) == CHOOSE i \in 1..Len(StrOrder) : StrOrder[i] = s

strcmp(a, b) ==
  IF StrRank(a) < StrRank(b) THEN -1 ELSE IF StrRank(a) > StrRank(b) THEN 1 ELSE 0

(* util.h: a null pointer sorts before any string *)
safe_strcmp(da, db) ==
  IF da # NullStr /\ db # NullStr THEN strcmp(da, db)
  ELSE IF da = NullStr /\ db # NullStr THEN -1
  ELSE IF da # NullStr /\ db = NullStr THEN 1
  ELSE 0

----------------------------------------------------------------------------
(* The accounts of the ledger: the currency and security of each *)

AccountTable ==
  << [currency |-> "USD", security |-> NullStr],
     [currency |-> "USD", security |-> "IBM"],
     [currency |-> "EUR", security |-> ""],
     [currency |-> "EUR", security |-> "IBM"],
     [currency |-> "IBM", security |-> "USD"] >>

AccIds == 1..Len(AccountTable)

----------------------------------------------------------------------------
(* The state the operations work on, as one record: the variables plus     *)
(* `over` (a bound of the model was exceeded: the step is not taken) and   *)
(* `ub` (what a null dereference does in this step: "trap" or "null", the  *)
(* read yielding a null pointer).                                          *)

Halted(w) == w.fatal # NoFatal \/ w.over

Die(w, why) == [w EXCEPT !.fatal = why]

Call(w, k, a, b) == [w EXCEPT !.calls = Append(@, [k |-> k, a |-> a, b |-> b])]

RECURSIVE SeqRemove(_, _)
SeqRemove(seq, x) ==
  IF seq = <<>> THEN <<>>
  ELSE IF Head(seq) = x THEN SeqRemove(Tail(seq), x)
  ELSE <<Head(seq)>> \o SeqRemove(Tail(seq), x)

InSeq(seq, x) == \E i \in 1..Len(seq) : seq[i] = x

(* tarray[i] of a null-terminated array, i counted from 0 *)
At(seq, i) == IF i + 1 <= Len(seq) THEN seq[i + 1] ELSE NULL

----------------------------------------------------------------------------
(* Split and Transaction structures *)

InitSplit ==
  [st |-> "live", acc |-> NULL, parent |-> NULL, action |-> "", memo |-> "",
   damount |-> DZero, share_price |-> DOne]

FreedSplit ==
  [st |-> "freed", acc |-> NULL, parent |-> NULL, action |-> NullStr,
   memo |-> NullStr, damount |-> DZero, share_price |-> DOne]

NoSplit == [FreedSplit EXCEPT !.st = "unalloc"]

Timespec0 == [tv_sec |-> 0, tv_nsec |-> 0]

FreedTrans ==
  [st |-> "freed", num |-> NullStr, description |-> NullStr, splits |-> <<>>,
   date_entered |-> Timespec0, date_posted |-> Timespec0, open |-> 0]

NoTrans == [FreedTrans EXCEPT !.st = "unalloc"]

NewSplitId(w) ==
  IF \E s \in SplitIds : w.splits[s].st = "unalloc"
  THEN CHOOSE s \in SplitIds :
         /\ w.splits[s].st = "unalloc"
         /\ \A r \in SplitIds : w.splits[r].st = "unalloc" => s <= r
  ELSE NULL

NewTransId(w) ==
  IF \E t \in TransIds : w.trans[t].st = "unalloc"
  THEN CHOOSE t \in TransIds :
         /\ w.trans[t].st = "unalloc"
         /\ \A r \in TransIds : w.trans[r].st = "unalloc" => t <= r
  ELSE NULL

xaccFreeSplit(w, split) ==
  IF split = NULL THEN w ELSE [w EXCEPT !.splits[split] = FreedSplit]

RECURSIVE FreeSplitsFrom(_, _, _)
FreeSplitsFrom(w, sarray, i) ==
  IF i > Len(sarray) THEN w
  ELSE FreeSplitsFrom(xaccFreeSplit(w, sarray[i]), sarray, i + 1)

xaccFreeTransaction(w, t) ==
  IF t = NULL THEN w
  ELSE [FreeSplitsFrom(w, w.trans[t].splits, 1) EXCEPT !.trans[t] = FreedTrans]

MARK_SPLIT(w, split) ==
  LET acc == w.splits[split].acc
  IN  IF acc # NULL THEN [w EXCEPT !.accts[acc].changed = 1] ELSE w

RECURSIVE MarkFrom(_, _, _)
MarkFrom(w, sarray, i) ==
  IF i > Len(sarray) THEN w ELSE MarkFrom(MARK_SPLIT(w, sarray[i]), sarray, i + 1)

MarkChanged(w, t) == MarkFrom(w, w.trans[t].splits, 1)

xaccCountSplits(tarray) == Len(tarray)

----------------------------------------------------------------------------
(* Canonical ordering *)

(* xaccTransOrder with the bug of a num comparison that ignores the order *)
TransOrderNumOneWay(w, ta, tb) ==
  IF ta # NULL /\ tb = NULL THEN -1
  ELSE IF ta = NULL /\ tb # NULL THEN 1
  ELSE IF ta = NULL /\ tb = NULL THEN 0
  ELSE LET a == w.trans[ta]
           b == w.trans[tb]
       IN  IF a.date_posted.tv_sec < b.date_posted.tv_sec THEN -1
           ELSE IF a.date_posted.tv_sec > b.date_posted.tv_sec THEN 1
           ELSE IF a.num # b.num THEN -1
           ELSE 0

(* xaccTransOrder with the bug of comparing description before num *)
TransOrderDescriptionFirst(w, ta, tb) ==
  IF ta # NULL /\ tb = NULL THEN -1
  ELSE IF ta = NULL /\ tb # NULL THEN 1
  ELSE IF ta = NULL /\ tb = NULL THEN 0
  ELSE LET a == w.trans[ta]
           b == w.trans[tb]
       IN  IF a.date_posted.tv_sec < b.date_posted.tv_sec THEN -1
           ELSE IF a.date_posted.tv_sec > b.date_posted.tv_sec THEN 1
           ELSE IF a.date_posted.tv_nsec < b.date_posted.tv_nsec THEN -1
           ELSE IF a.date_posted.tv_nsec > b.date_posted.tv_nsec THEN 1
           ELSE IF safe_strcmp(a.description, b.description) # 0
                THEN safe_strcmp(a.description, b.description)
           ELSE IF safe_strcmp(a.num, b.num) # 0 THEN safe_strcmp(a.num, b.num)
           ELSE 0

xaccTransOrder(w, ta, tb) ==
  IF ta # NULL /\ tb = NULL THEN -1
  ELSE IF ta = NULL /\ tb # NULL THEN 1
  ELSE IF ta = NULL /\ tb = NULL THEN 0
  ELSE LET a == w.trans[ta]
           b == w.trans[tb]
       IN  IF a.date_posted.tv_sec < b.date_posted.tv_sec THEN -1
           ELSE IF a.date_posted.tv_sec > b.date_posted.tv_sec THEN 1
           ELSE IF a.date_posted.tv_nsec < b.date_posted.tv_nsec THEN -1
           ELSE IF a.date_posted.tv_nsec > b.date_posted.tv_nsec THEN 1
           ELSE IF safe_strcmp(a.num, b.num) # 0 THEN safe_strcmp(a.num, b.num)
           ELSE IF safe_strcmp(a.description, b.description) # 0
                THEN safe_strcmp(a.description, b.description)
           ELSE 0

(* xaccSplitOrder with the bug of comparing action before memo *)
SplitOrderActionFirst(w, sa, sb) ==
  IF sa # NULL /\ sb = NULL THEN -1
  ELSE IF sa = NULL /\ sb # NULL THEN 1
  ELSE IF sa = NULL /\ sb = NULL THEN 0
  ELSE LET a == w.splits[sa]
           b == w.splits[sb]
           retval == xaccTransOrder(w, a.parent, b.parent)
       IN  IF retval # 0 THEN retval
           ELSE IF safe_strcmp(a.action, b.action) # 0
                THEN safe_strcmp(a.action, b.action)
           ELSE IF safe_strcmp(a.memo, b.memo) # 0 THEN safe_strcmp(a.memo, b.memo)
           ELSE 0

xaccSplitOrder(w, sa, sb) ==
  IF sa # NULL /\ sb = NULL THEN -1
  ELSE IF sa = NULL /\ sb # NULL THEN 1
  ELSE IF sa = NULL /\ sb = NULL THEN 0
  ELSE LET a == w.splits[sa]
           b == w.splits[sb]
           retval == xaccTransOrder(w, a.parent, b.parent)
       IN  IF retval # 0 THEN retval
           ELSE IF safe_strcmp(a.memo, b.memo) # 0 THEN safe_strcmp(a.memo, b.memo)
           ELSE IF safe_strcmp(a.action, b.action) # 0
                THEN safe_strcmp(a.action, b.action)
           ELSE 0

----------------------------------------------------------------------------
(* The Account and Journal collaborators *)

(* the position of split in the date-ordered collection seq *)
SortedPos(w, seq, split) ==
  IF \E i \in 1..Len(seq) : xaccSplitOrder(w, seq[i], split) > 0
  THEN CHOOSE i \in 1..Len(seq) :
         /\ xaccSplitOrder(w, seq[i], split) > 0
         /\ \A j \in 1..(i - 1) : xaccSplitOrder(w, seq[j], split) <= 0
  ELSE Len(seq) + 1

InsertSorted(w, seq, split) ==
  LET p == SortedPos(w, seq, split)
  IN  SubSeq(seq, 1, p - 1) \o <<split>> \o SubSeq(seq, p, Len(seq))

xaccAccountRemoveSplit(w, acc, split) ==
  LET w1 == Call(w, "remove", acc, split)
  IN  IF acc = NULL \/ split = NULL THEN w1
      ELSE [w1 EXCEPT !.accts[acc].splits = SeqRemove(@, split),
                      !.accts[acc].changed = 1,
                      !.splits[split].acc = NULL]

xaccAccountInsertSplit(w, acc, split) ==
  LET w1 == Call(w, "insert", acc, split)
  IN  IF acc = NULL \/ split = NULL THEN w1
      ELSE LET oldacc == w1.splits[split].acc
               w2 == IF oldacc # NULL
                     THEN [w1 EXCEPT !.accts[oldacc].splits = SeqRemove(@, split),
                                     !.accts[oldacc].changed = 1]
                     ELSE w1
           IN  [w2 EXCEPT !.splits[split].acc = acc,
                          !.accts[acc].changed = 1,
                          !.accts[acc].splits = InsertSorted(w2, @, split)]

(* the balance caches are not part of the model: the call is recorded *)
xaccAccountRecomputeBalance(w, acc) == Call(w, "recompute", acc, NULL)

InOrderAt(w, seq, i) ==
  /\ i > 1 => xaccSplitOrder(w, seq[i - 1], seq[i]) <= 0
  /\ i < Len(seq) => xaccSplitOrder(w, seq[i], seq[i + 1]) <= 0

xaccCheckDateOrder(w, acc, split) ==
  LET w1 == Call(w, "checkorder", acc, split)
  IN  IF acc = NULL \/ split = NULL THEN w1
      ELSE LET seq == w1.accts[acc].splits
           IN  IF ~InSeq(seq, split) THEN w1
               ELSE IF \A i \in 1..Len(seq) : seq[i] = split => InOrderAt(w1, seq, i)
               THEN w1
               ELSE [w1 EXCEPT !.accts[acc].splits =
                                  InsertSorted(w1, SeqRemove(seq, split), split)]

(* the journal file is opened if it is not open yet: the call is recorded *)
xaccOpenLog(w) == Call(w, "openlog", NULL, NULL)

(* the call is recorded with the open flag the writer finds in the transaction *)
xaccTransWriteLog(w, t, flag) ==
  IF Len(w.journal) >= MaxJournal THEN [w EXCEPT !.over = TRUE]
  ELSE [Call(w, "log", t, w.trans[t].open) EXCEPT
          !.journal = Append(@, [trans |-> t, flag |-> flag])]

----------------------------------------------------------------------------
(* Conversions between a value in a base unit and (damount, share_price) *)

(* xaccSplitSetBaseValue with the bug of accepting any base unit *)
SetBaseValueAnyUnit(w, s, value, base_currency) ==
  IF Halted(w) \/ s = NULL THEN w
  ELSE LET sp == w.splits[s]
           byPrice == [w EXCEPT !.splits[s].damount = DDiv(value, sp.share_price)]
       IN  IF sp.acc = NULL
           THEN IF w.force # 0 THEN Die(w, "assert (s->acc)") ELSE byPrice
           ELSE IF safe_strcmp(AccountTable[sp.acc].security, base_currency) = 0
                   /\ safe_strcmp(AccountTable[sp.acc].currency, base_currency) # 0
                THEN [w EXCEPT !.splits[s].damount = value]
           ELSE byPrice

xaccSplitSetBaseValue(w, s, value, base_currency) ==
  IF Halted(w) \/ s = NULL THEN w
  ELSE LET sp == w.splits[s]
           byPrice == [w EXCEPT !.splits[s].damount = DDiv(value, sp.share_price)]
       IN  IF sp.acc = NULL
           THEN IF w.force # 0 THEN Die(w, "assert (s->acc)") ELSE byPrice
           ELSE IF safe_strcmp(AccountTable[sp.acc].currency, base_currency) = 0
                THEN byPrice
           ELSE IF safe_strcmp(AccountTable[sp.acc].security, base_currency) = 0
                THEN [w EXCEPT !.splits[s].damount = value]
           ELSE IF base_currency = NullStr /\ w.force = 0
                THEN byPrice
           ELSE Call(w, "error", s, NULL)

(* the value returned; fatal tells whether the assertion failed instead *)
xaccSplitGetBaseValue(w, s, base_currency) ==
  IF s = NULL THEN [fatal |-> NoFatal, value |-> DZero]
  ELSE LET sp == w.splits[s]
           byPrice == [fatal |-> NoFatal, value |-> DMul(sp.damount, sp.share_price)]
       IN  IF sp.acc = NULL
           THEN IF w.force # 0
                THEN [fatal |-> "assert (s->acc)", value |-> DZero]
                ELSE byPrice
           ELSE IF safe_strcmp(AccountTable[sp.acc].currency, base_currency) = 0
                THEN byPrice
           ELSE IF safe_strcmp(AccountTable[sp.acc].security, base_currency) = 0
                THEN [fatal |-> NoFatal, value |-> sp.damount]
           ELSE IF base_currency = NullStr /\ w.force = 0
                THEN byPrice
           ELSE [fatal |-> NoFatal, value |-> DZero]

RECURSIVE ComputeValueFrom(_, _, _, _, _, _)
ComputeValueFrom(w, sarray, skip_me, base_currency, i, value) ==
  IF i > Len(sarray) THEN [fatal |-> NoFatal, value |-> value]
  ELSE LET s == sarray[i]
           sp == w.splits[s]
           byPrice == DAdd(value, DMul(sp.damount, sp.share_price))
       IN  IF s = skip_me
           THEN ComputeValueFrom(w, sarray, skip_me, base_currency, i + 1, value)
           ELSE IF sp.acc = NULL
           THEN IF w.force # 0
                THEN [fatal |-> "assert (s->acc)", value |-> value]
                ELSE ComputeValueFrom(w, sarray, skip_me, base_currency, i + 1, byPrice)
           ELSE IF base_currency = NullStr /\ w.force = 0
           THEN ComputeValueFrom(w, sarray, skip_me, base_currency, i + 1, byPrice)
           ELSE IF safe_strcmp(AccountTable[sp.acc].currency, base_currency) = 0
           THEN ComputeValueFrom(w, sarray, skip_me, base_currency, i + 1, byPrice)
           ELSE IF safe_strcmp(AccountTable[sp.acc].security, base_currency) = 0
           THEN ComputeValueFrom(w, sarray, skip_me, base_currency, i + 1,
                                 DAdd(value, sp.damount))
           ELSE [fatal |-> "inconsistent currencies", value |-> value]

ComputeValue(w, sarray, skip_me, base_currency) ==
  ComputeValueFrom(w, sarray, skip_me, base_currency, 1, DZero)

----------------------------------------------------------------------------
(* Currency resolution: the loop of xaccSplitRebalance *)

EmptyToNull(str) == IF str # NullStr /\ str = "" THEN NullStr ELSE str

(* ResolveStep with the bug of a lone candidate being compared with the *)
(* currency of the split only                                          *)
ResolveStepCurrencyOnly(ra, rb, sa, sb) ==
  IF ra # NullStr /\ rb # NullStr
  THEN LET aa == safe_strcmp(ra, sa)
           ab == safe_strcmp(ra, sb)
           ba == safe_strcmp(rb, sa)
           bb == safe_strcmp(rb, sb)
           r  == IF aa = 0 /\ bb # 0 THEN <<ra, NullStr>>
                 ELSE IF ab = 0 /\ ba # 0 THEN <<ra, NullStr>>
                 ELSE IF ba = 0 /\ ab # 0 THEN <<NullStr, rb>>
                 ELSE IF bb = 0 /\ aa # 0 THEN <<NullStr, rb>>
                 ELSE IF aa # 0 /\ bb # 0 /\ ab # 0 /\ ba # 0 THEN <<NullStr, NullStr>>
                 ELSE <<ra, rb>>
       IN  IF r[1] = NullStr THEN <<r[2], NullStr>> ELSE r
  ELSE IF ra # NullStr /\ rb = NullStr
  THEN IF safe_strcmp(ra, sa) # 0 THEN <<NullStr, rb>> ELSE <<ra, rb>>
  ELSE <<ra, rb>>

(* one pass of the loop body over a split with units (sa, sb) *)
ResolveStep(ra, rb, sa, sb) ==
  IF ra # NullStr /\ rb # NullStr
  THEN LET aa == safe_strcmp(ra, sa)
           ab == safe_strcmp(ra, sb)
           ba == safe_strcmp(rb, sa)
           bb == safe_strcmp(rb, sb)
           r  == IF aa = 0 /\ bb # 0 THEN <<ra, NullStr>>
                 ELSE IF ab = 0 /\ ba # 0 THEN <<ra, NullStr>>
                 ELSE IF ba = 0 /\ ab # 0 THEN <<NullStr, rb>>
                 ELSE IF bb = 0 /\ aa # 0 THEN <<NullStr, rb>>
                 ELSE IF aa # 0 /\ bb # 0 /\ ab # 0 /\ ba # 0 THEN <<NullStr, NullStr>>
                 ELSE <<ra, rb>>
       IN  IF r[1] = NullStr THEN <<r[2], NullStr>> ELSE r
  ELSE IF ra # NullStr /\ rb = NullStr
  THEN IF safe_strcmp(ra, sa) # 0 /\ safe_strcmp(ra, sb) # 0
       THEN <<NullStr, rb>> ELSE <<ra, rb>>
  ELSE <<ra, rb>>

RECURSIVE ResolveFrom(_, _, _, _, _)
ResolveFrom(w, sarray, i, ra, rb) ==
  IF i > Len(sarray) THEN [fatal |-> NoFatal, ra |-> ra, rb |-> rb]
  ELSE IF w.force = 0 THEN ResolveFrom(w, sarray, i + 1, ra, rb)
  ELSE LET sp == w.splits[sarray[i]]
       IN  IF sp.acc = NULL THEN [fatal |-> "assert (s->acc)", ra |-> ra, rb |-> rb]
           ELSE LET r == ResolveStep(ra, rb, AccountTable[sp.acc].currency,
                                     EmptyToNull(AccountTable[sp.acc].security))
                IN  IF r[1] = NullStr /\ r[2] = NullStr
                    THEN [fatal |-> "no common split currencies",
                          ra |-> r[1], rb |-> r[2]]
                    ELSE ResolveFrom(w, sarray, i + 1, r[1], r[2])

(* the base currency xaccSplitRebalance settles on for a split with an account *)
ResolveBase(w, split) ==
  LET acc == w.splits[split].acc
  IN  ResolveFrom(w, w.trans[w.splits[split].parent].splits, 1,
                  AccountTable[acc].currency, EmptyToNull(AccountTable[acc].security))

----------------------------------------------------------------------------
(* Rebalancing and the structure of a transaction's split array *)

RECURSIVE xaccSplitRebalance(_, _)

xaccTransRebalance(w, t) == xaccSplitRebalance(w, At(w.trans[t].splits, 0))

CHECK_OPEN(w, t) ==
  IF w.trans[t].open = 0 THEN Call(w, "notopen", t, NULL) ELSE w

(* xaccTransRemoveSplit with the bug of leaving the array as it is *)
RemoveSplitKeepsArray(w, t, split) ==
  IF split = NULL \/ t = NULL THEN w
  ELSE [w EXCEPT !.splits[split].parent = NULL]

xaccTransRemoveSplit(w, t, split) ==
  IF split = NULL \/ t = NULL THEN w
  ELSE [w EXCEPT !.splits[split].parent = NULL,
                 !.trans[t].splits = SeqRemove(@, split)]

(* xaccTransAppendSplit with the bug of leaving the split in its old parent *)
AppendWithoutRemove(w, t, split) ==
  IF Halted(w) \/ t = NULL \/ split = NULL THEN w
  ELSE LET w0 == CHECK_OPEN(w, t)
       IN  xaccSplitRebalance(
             [w0 EXCEPT !.splits[split].parent = t,
                        !.trans[t].splits = Append(@, split)],
             split)

(* xaccTransAppendSplit with the bug of putting the split first *)
AppendAtFront(w, t, split) ==
  IF Halted(w) \/ t = NULL \/ split = NULL THEN w
  ELSE LET w0 == CHECK_OPEN(w, t)
           oldtrans == w0.splits[split].parent
           w1 == IF oldtrans # NULL
                 THEN xaccTransRebalance(xaccTransRemoveSplit(w0, oldtrans, split),
                                         oldtrans)
                 ELSE w0
       IN  IF Halted(w1) THEN w1
           ELSE xaccSplitRebalance(
                  [w1 EXCEPT !.splits[split].parent = t,
                             !.trans[t].splits = <<split>> \o @],
                  split)

xaccTransAppendSplit(w, t, split) ==
  IF Halted(w) \/ t = NULL \/ split = NULL THEN w
  ELSE LET w0 == CHECK_OPEN(w, t)
           oldtrans == w0.splits[split].parent
           w1 == IF oldtrans # NULL
                 THEN xaccTransRebalance(xaccTransRemoveSplit(w0, oldtrans, split),
                                         oldtrans)
                 ELSE w0
       IN  IF Halted(w1) THEN w1
           ELSE xaccSplitRebalance(
                  [w1 EXCEPT !.splits[split].parent = t,
                             !.trans[t].splits = Append(@, split)],
                  split)

(* ForceValue with the bug of a lost sign: s is given the others' sum *)
ForceValueSameSign(w, sarray, s, base_currency) ==
  LET cv == ComputeValue(w, sarray, s, base_currency)
  IN  IF cv.fatal # NoFatal THEN Die(w, cv.fatal)
      ELSE LET w1 == xaccSplitSetBaseValue(w, s, cv.value, base_currency)
           IN  IF Halted(w1) THEN w1
               ELSE xaccAccountRecomputeBalance(MARK_SPLIT(w1, s), w1.splits[s].acc)

(* force the value of s to cancel the other splits of sarray *)
ForceValue(w, sarray, s, base_currency) ==
  LET cv == ComputeValue(w, sarray, s, base_currency)
  IN  IF cv.fatal # NoFatal THEN Die(w, cv.fatal)
      ELSE LET w1 == xaccSplitSetBaseValue(w, s, DNeg(cv.value), base_currency)
           IN  IF Halted(w1) THEN w1
               ELSE xaccAccountRecomputeBalance(MARK_SPLIT(w1, s), w1.splits[s].acc)

(* the activation of xaccSplitRebalance that is running, at nesting depth *)
(* w.rb.depth, takes branch br, or creates a split                       *)
Branch(w, br) ==
  [w EXCEPT !.rb = [depth |-> @.depth, log |-> Append(@.log, [d |-> @.depth, br |-> br])]]

(* AutoBalance with the bug of putting the balancing split first *)
AutoBalanceAtFront(w, t, split) ==
  LET s == NewSplitId(w)
      sp == w.splits[split]
      value == DMul(sp.share_price, sp.damount)
  IN  IF s = NULL THEN [w EXCEPT !.over = TRUE]
      ELSE LET w1 == [Branch(w, "create") EXCEPT !.splits[s] =
                        [InitSplit EXCEPT !.damount = DNeg(value),
                                          !.memo = sp.memo,
                                          !.action = sp.action]]
               w2 == AppendAtFront(MARK_SPLIT(w1, s), t, s)
           IN  IF Halted(w2) THEN w2
               ELSE xaccAccountInsertSplit(w2, w2.splits[split].acc, s)

(* create the balancing split of a lone source split *)
AutoBalance(w, t, split) ==
  LET s == NewSplitId(w)
      sp == w.splits[split]
      value == DMul(sp.share_price, sp.damount)
  IN  IF s = NULL THEN [w EXCEPT !.over = TRUE]
      ELSE LET w1 == [Branch(w, "create") EXCEPT !.splits[s] =
                        [InitSplit EXCEPT !.damount = DNeg(value),
                                          !.memo = sp.memo,
                                          !.action = sp.action]]
               w2 == xaccTransAppendSplit(MARK_SPLIT(w1, s), t, s)
           IN  IF Halted(w2) THEN w2
               ELSE xaccAccountInsertSplit(w2, w2.splits[split].acc, s)

(* RebalanceOnto with the bug of balancing a lone source split whatever *)
(* its quantity                                                         *)
RebalanceOntoAnyLone(w, t, split, base_currency) ==
  LET sarray == w.trans[t].splits
  IN  IF split = At(sarray, 0)
      THEN IF At(sarray, 1) # NULL
           THEN ForceValue(Branch(w, "source"), sarray, At(sarray, 1), base_currency)
           ELSE IF w.force # 0
                THEN AutoBalance(Branch(w, "lone"), t, split)
                ELSE Branch(w, "lone")
      ELSE ForceValue(Branch(w, "destination"), sarray, At(sarray, 0), base_currency)

(* RebalanceOnto with the bug of forcing the last split, not the first *)
(* destination, when the source was changed                           *)
RebalanceOntoLast(w, t, split, base_currency) ==
  LET sarray == w.trans[t].splits
  IN  IF split = At(sarray, 0)
      THEN IF At(sarray, 1) # NULL
           THEN ForceValue(Branch(w, "source"), sarray, sarray[Len(sarray)], base_currency)
           ELSE IF w.force # 0 /\ ~DEQ(DZero, w.splits[split].damount)
                THEN AutoBalance(Branch(w, "lone"), t, split)
                ELSE Branch(w, "lone")
      ELSE ForceValue(Branch(w, "destination"), sarray, At(sarray, 0), base_currency)

(* lines 576-637: base_currency is known *)
RebalanceOnto(w, t, split, base_currency) ==
  LET sarray == w.trans[t].splits
  IN  IF split = At(sarray, 0)
      THEN IF At(sarray, 1) # NULL
           THEN ForceValue(Branch(w, "source"), sarray, At(sarray, 1), base_currency)
           ELSE IF w.force # 0 /\ ~DEQ(DZero, w.splits[split].damount)
                THEN AutoBalance(Branch(w, "lone"), t, split)
                ELSE Branch(w, "lone")
      ELSE ForceValue(Branch(w, "destination"), sarray, At(sarray, 0), base_currency)

(* xaccSplitRebalance with the bug of ignoring the transaction's deferral *)
RebalanceIgnoringDeferral(w, split) ==
  IF Halted(w) THEN w
  ELSE IF split = NULL
  THEN IF w.ub = "trap" THEN Die(w, "null dereference") ELSE w
  ELSE LET sp == w.splits[split]
           t == sp.parent
       IN  IF t = NULL THEN w
           ELSE IF sp.acc # NULL /\ HasBit(w.accts[sp.acc].open, ACC_DEFER_REBALANCE)
           THEN w
           ELSE IF At(w.trans[t].splits, 0) = NULL
           THEN Die(w, "assert (trans->splits[0])")
           ELSE IF sp.acc # NULL
           THEN LET r == ResolveBase(w, split)
                IN  IF r.fatal # NoFatal THEN Die(w, r.fatal)
                    ELSE RebalanceOnto(w, t, split, r.ra)
           ELSE RebalanceOnto(w, t, split, NullStr)

(* lines 485-646 *)
RebalanceFrom(w, split) ==
  IF Halted(w) THEN w
  ELSE IF split = NULL
  THEN IF w.ub = "trap" THEN Die(w, "null dereference") ELSE w
  ELSE LET sp == w.splits[split]
           t == sp.parent
       IN  IF t = NULL THEN w
           ELSE IF HasBit(w.trans[t].open, DEFER_REBALANCE) THEN w
           ELSE IF sp.acc # NULL /\ HasBit(w.accts[sp.acc].open, ACC_DEFER_REBALANCE)
           THEN w
           ELSE IF At(w.trans[t].splits, 0) = NULL
           THEN Die(w, "assert (trans->splits[0])")
           ELSE IF sp.acc # NULL
           THEN LET r == ResolveBase(w, split)
                IN  IF r.fatal # NoFatal THEN Die(w, r.fatal)
                    ELSE RebalanceOnto(w, t, split, r.ra)
           ELSE RebalanceOnto(w, t, split, NullStr)

(* w.rb.depth counts the activations of xaccSplitRebalance that are running *)
Enter(w) == [w EXCEPT !.rb.depth = @ + 1]
Leave(w) == [w EXCEPT !.rb.depth = @ - 1]

xaccSplitRebalance(w, split) == Leave(RebalanceFrom(Enter(w), split))

----------------------------------------------------------------------------
(* Construction *)

xaccMallocSplit(w) ==
  LET s == NewSplitId(w)
  IN  IF s = NULL THEN [w EXCEPT !.over = TRUE]
      ELSE [w EXCEPT !.splits[s] = InitSplit]

xaccMallocTransaction(w) ==
  LET t == NewTransId(w)
      s == NewSplitId(w)
  IN  IF t = NULL \/ s = NULL THEN [w EXCEPT !.over = TRUE]
      ELSE [w EXCEPT !.splits[s] = [InitSplit EXCEPT !.parent = t],
                     !.trans[t] = [st |-> "live", num |-> "", description |-> "",
                                   splits |-> <<s>>, date_entered |-> Timespec0,
                                   date_posted |-> Timespec0, open |-> 0]]

----------------------------------------------------------------------------
(* Quantity, price and value setters *)

xaccSplitSetSharePriceAndAmount(w, s, price, amt) ==
  xaccSplitRebalance([MARK_SPLIT(w, s) EXCEPT !.splits[s].share_price = price,
                                              !.splits[s].damount = amt], s)

xaccSplitSetSharePrice(w, s, amt) ==
  xaccSplitRebalance([MARK_SPLIT(w, s) EXCEPT !.splits[s].share_price = amt], s)

xaccSplitSetShareAmount(w, s, amt) ==
  xaccSplitRebalance([MARK_SPLIT(w, s) EXCEPT !.splits[s].damount = amt], s)

xaccSplitSetValue(w, s, amt) ==
  xaccSplitRebalance(
    [MARK_SPLIT(w, s) EXCEPT !.splits[s].damount = DDiv(amt, w.splits[s].share_price)],
    s)

----------------------------------------------------------------------------
(* The edit session *)

(* xaccTransBeginEdit with the bug of storing the deferral bit alone *)
BeginEditDeferBitOnly(w, t, defer) ==
  LET open == IF defer # 0 THEN DEFER_REBALANCE ELSE BEGIN_EDIT
  IN  xaccTransWriteLog(xaccOpenLog([w EXCEPT !.trans[t].open = open]), t, "B")

xaccTransBeginEdit(w, t, defer) ==
  LET open == IF defer # 0 THEN SetBit(BEGIN_EDIT, DEFER_REBALANCE) ELSE BEGIN_EDIT
  IN  xaccTransWriteLog(xaccOpenLog([w EXCEPT !.trans[t].open = open]), t, "B")

RECURSIVE CheckOrderFrom(_, _, _)
CheckOrderFrom(w, t, i) ==
  IF Halted(w) \/ i > Len(w.trans[t].splits) THEN w
  ELSE LET split == w.trans[t].splits[i]
       IN  CheckOrderFrom(xaccCheckDateOrder(w, w.splits[split].acc, split), t, i + 1)

RECURSIVE RecomputeFrom(_, _, _)
RecomputeFrom(w, t, i) ==
  IF Halted(w) \/ i > Len(w.trans[t].splits) THEN w
  ELSE RecomputeFrom(
         xaccAccountRecomputeBalance(w, w.splits[w.trans[t].splits[i]].acc), t, i + 1)

(* xaccTransCommitEdit with the bug of rebalancing before the deferral is *)
(* cleared                                                               *)
CommitKeepsDeferral(w, t) ==
  IF t = NULL THEN w
  ELSE LET w0 == CHECK_OPEN(w, t)
           w2 == xaccTransRebalance(w0, t)
           w3 == RecomputeFrom(CheckOrderFrom(w2, t, 1), t, 1)
       IN  IF Halted(w3) THEN w3
           ELSE xaccTransWriteLog([w3 EXCEPT !.trans[t].open = 0], t, "C")

(* xaccTransCommitEdit with the bug of rebalancing from the last split, *)
(* not from the source split                                           *)
CommitFromLastSplit(w, t) ==
  IF t = NULL THEN w
  ELSE LET w0 == CHECK_OPEN(w, t)
           w1 == [w0 EXCEPT !.trans[t].open = ClearBit(@, DEFER_REBALANCE)]
           w2 == xaccSplitRebalance(w1, At(w1.trans[t].splits, Len(w1.trans[t].splits) - 1))
           w3 == RecomputeFrom(CheckOrderFrom(w2, t, 1), t, 1)
       IN  IF Halted(w3) THEN w3
           ELSE xaccTransWriteLog([w3 EXCEPT !.trans[t].open = 0], t, "C")

xaccTransCommitEdit(w, t) ==
  IF t = NULL THEN w
  ELSE LET w0 == CHECK_OPEN(w, t)
           w1 == [w0 EXCEPT !.trans[t].open = ClearBit(@, DEFER_REBALANCE)]
           w2 == xaccTransRebalance(w1, t)
           w3 == RecomputeFrom(CheckOrderFrom(w2, t, 1), t, 1)
       IN  IF Halted(w3) THEN w3
           ELSE xaccTransWriteLog([w3 EXCEPT !.trans[t].open = 0], t, "C")

(* MARK_SPLIT, xaccAccountRemoveSplit and xaccAccountRecomputeBalance of one split *)
DetachSplit(w, split) ==
  LET acc == w.splits[split].acc
  IN  xaccAccountRecomputeBalance(
        xaccAccountRemoveSplit(MARK_SPLIT(w, split), acc, split), acc)

RECURSIVE DetachFrom(_, _, _)
DetachFrom(w, sarray, i) ==
  IF i > Len(sarray) THEN w ELSE DetachFrom(DetachSplit(w, sarray[i]), sarray, i + 1)

(* xaccTransDestroy with the bug of freeing without detaching the splits *)
TransDestroyNoDetach(w, t) ==
  IF t = NULL THEN w
  ELSE LET w1 == xaccTransWriteLog(CHECK_OPEN(w, t), t, "D")
       IN  IF Halted(w1) THEN w1
           ELSE xaccFreeTransaction(w1, t)

xaccTransDestroy(w, t) ==
  IF t = NULL THEN w
  ELSE LET w1 == xaccTransWriteLog(CHECK_OPEN(w, t), t, "D")
       IN  IF Halted(w1) THEN w1
           ELSE xaccFreeTransaction(DetachFrom(w1, w1.trans[t].splits, 1), t)

(* xaccSplitDestroy with the bug of not rebalancing what is left *)
SplitDestroyNoRebalance(w, split) ==
  LET t == w.splits[split].parent
  IN  IF t = NULL THEN Die(w, "assert (trans)")
      ELSE LET w0 == MarkChanged(CHECK_OPEN(w, t), t)
               sarray == w.trans[t].splits
               numsplits == xaccCountSplits(sarray)
           IN  IF ~InSeq(sarray, split) THEN Die(w0, "assert (ismember)")
               ELSE IF 2 < numsplits
               THEN LET w1 == xaccTransRemoveSplit(MARK_SPLIT(w0, split), t, split)
                        acc == w1.splits[split].acc
                        w2 == xaccAccountRecomputeBalance(
                                xaccAccountRemoveSplit(w1, acc, split), acc)
                    IN  xaccFreeSplit(w2, split)
               ELSE LET w1 == xaccTransWriteLog(w0, t, "D")
                        w2 == DetachSplit(w1, At(sarray, 0))
                    IN  IF Halted(w1) THEN w1
                        ELSE IF At(sarray, 1) # NULL
                        THEN xaccFreeTransaction(DetachSplit(w2, At(sarray, 1)), t)
                        ELSE w2

xaccSplitDestroy(w, split) ==
  LET t == w.splits[split].parent
  IN  IF t = NULL THEN Die(w, "assert (trans)")
      ELSE LET w0 == MarkChanged(CHECK_OPEN(w, t), t)
               sarray == w.trans[t].splits
               numsplits == xaccCountSplits(sarray)
           IN  IF ~InSeq(sarray, split) THEN Die(w0, "assert (ismember)")
               ELSE IF 2 < numsplits
               THEN LET w1 == xaccTransRemoveSplit(MARK_SPLIT(w0, split), t, split)
                        acc == w1.splits[split].acc
                        w2 == xaccAccountRecomputeBalance(
                                xaccAccountRemoveSplit(w1, acc, split), acc)
                        w3 == xaccFreeSplit(w2, split)
                    IN  xaccSplitRebalance(w3, At(w3.trans[t].splits, 0))
               ELSE LET w1 == xaccTransWriteLog(w0, t, "D")
                        w2 == DetachSplit(w1, At(sarray, 0))
                    IN  IF Halted(w1) THEN w1
                        ELSE IF At(sarray, 1) # NULL
                        THEN xaccFreeTransaction(DetachSplit(w2, At(sarray, 1)), t)
                        ELSE w2

----------------------------------------------------------------------------
(* Field setters *)

(* xaccTransSetDateSecs with the bug of leaving the splits where they are *)
SetDateSecsNoReinsert(w, t, secs) ==
  IF t = NULL THEN w
  ELSE [CHECK_OPEN(w, t) EXCEPT !.trans[t].date_entered.tv_sec = secs,
                                !.trans[t].date_posted.tv_sec = secs]

xaccTransSetDateSecs(w, t, secs) ==
  IF t = NULL THEN w
  ELSE LET w1 == [CHECK_OPEN(w, t) EXCEPT !.trans[t].date_entered.tv_sec = secs,
                                          !.trans[t].date_posted.tv_sec = secs]
           Reinsert(ww, split) ==
             LET acc == ww.splits[split].acc
             IN  xaccAccountInsertSplit(xaccAccountRemoveSplit(ww, acc, split), acc, split)
           RECURSIVE ReinsertFrom(_, _)
           ReinsertFrom(ww, i) ==
             IF i > Len(w1.trans[t].splits) THEN ww
             ELSE ReinsertFrom(Reinsert(ww, w1.trans[t].splits[i]), i + 1)
       IN  ReinsertFrom(w1, 1)

xaccTransSetNum(w, t, xnum) ==
  IF t = NULL THEN w
  ELSE MarkChanged([CHECK_OPEN(w, t) EXCEPT !.trans[t].num = xnum], t)

xaccTransSetDescription(w, t, desc) ==
  IF t = NULL THEN w
  ELSE MarkChanged([CHECK_OPEN(w, t) EXCEPT !.trans[t].description = desc], t)

(* field is "memo" or "action" *)
SET_TRANS_FIELD(w, t, field, value) ==
  IF t = NULL THEN w
  ELSE LET w0 == CHECK_OPEN(w, t)
           sarray == w0.trans[t].splits
           s0 == At(sarray, 0)
           s1 == At(sarray, 1)
           Put(ww, s) == MARK_SPLIT(IF field = "memo"
                                    THEN [ww EXCEPT !.splits[s].memo = value]
                                    ELSE [ww EXCEPT !.splits[s].action = value], s)
       IN  IF s0 = NULL THEN Die(w0, "assert (trans->splits[0])")
           ELSE IF w0.force # 0 /\ ~DEQ(DZero, w0.splits[s0].damount) /\ s1 = NULL
           THEN Die(w0, "assert (trans->splits[1])")
           ELSE IF s1 # NULL /\ At(sarray, 2) = NULL
           THEN Put(Put(w0, s0), s1)
           ELSE Put(w0, s0)

xaccTransSetMemo(w, t, mimeo) == SET_TRANS_FIELD(w, t, "memo", mimeo)

xaccTransSetAction(w, t, actn) == SET_TRANS_FIELD(w, t, "action", actn)

xaccSplitSetMemo(w, split, memo) ==
  IF split = NULL THEN w
  ELSE MARK_SPLIT([w EXCEPT !.splits[split].memo = memo], split)

xaccSplitSetAction(w, split, actn) ==
  IF split = NULL THEN w
  ELSE MARK_SPLIT([w EXCEPT !.splits[split].action = actn], split)

----------------------------------------------------------------------------
(* Accessors.  Each gives the value returned and, in fatal, whether the    *)
(* call trapped instead.                                                   *)

Returns(v) == [fatal |-> NoFatal, value |-> v]

(* the four balance caches are written by Account.c only; here they stay *)
(* as xaccInitSplit set them                                             *)
xaccSplitGetBalance(w, s) == IF s = NULL THEN Returns(DZero) ELSE Returns(DZero)

xaccSplitGetClearedBalance(w, s) == IF s = NULL THEN Returns(DZero) ELSE Returns(DZero)

xaccSplitGetReconciledBalance(w, s) ==
  IF s = NULL THEN Returns(DZero) ELSE Returns(DZero)

xaccSplitGetShareBalance(w, s) == IF s = NULL THEN Returns(DZero) ELSE Returns(DZero)

(* trans->splits[i]: the entry after the terminating null is outside the array *)
xaccTransGetSplit(w, t, i) ==
  IF t = NULL THEN Returns(NULL)
  ELSE IF 0 > i THEN Returns(NULL)
  ELSE IF i > Len(w.trans[t].splits)
  THEN IF w.ub = "trap" THEN [fatal |-> "out of bounds read", value |-> NULL]
       ELSE Returns(NULL)
  ELSE Returns(At(w.trans[t].splits, i))

xaccTransGetNum(w, t) == IF t = NULL THEN Returns(NullStr) ELSE Returns(w.trans[t].num)

xaccTransGetDescription(w, t) ==
  IF t = NULL THEN Returns(NullStr) ELSE Returns(w.trans[t].description)

xaccTransGetDate(w, t) ==
  IF t = NULL THEN Returns(0) ELSE Returns(w.trans[t].date_posted.tv_sec)

(* no test of trans: trans->splits of a null trans is a null dereference *)
xaccTransCountSplits(w, t) ==
  IF t = NULL
  THEN IF w.ub = "trap" THEN [fatal |-> "null dereference", value |-> 0]
       ELSE Returns(0)
  ELSE Returns(xaccCountSplits(w.trans[t].splits))

xaccSplitGetParent(w, split) ==
  IF split = NULL THEN Returns(NULL) ELSE Returns(w.splits[split].parent)

xaccSplitGetAccount(w, split) ==
  IF split = NULL THEN Returns(NULL) ELSE Returns(w.splits[split].acc)

xaccSplitGetMemo(w, split) ==
  IF split = NULL THEN Returns(NullStr) ELSE Returns(w.splits[split].memo)

xaccSplitGetAction(w, split) ==
  IF split = NULL THEN Returns(NullStr) ELSE Returns(w.splits[split].action)

xaccSplitGetShareAmount(w, split) ==
  IF split = NULL THEN Returns(DZero) ELSE Returns(w.splits[split].damount)

xaccSplitGetValue(w, split) ==
  IF split = NULL THEN Returns(DZero)
  ELSE Returns(DMul(w.splits[split].damount, w.splits[split].share_price))

xaccSplitGetSharePrice(w, split) ==
  IF split = NULL THEN Returns(DOne) ELSE Returns(w.splits[split].share_price)

SplitGetters ==
  {"xaccSplitGetBalance", "xaccSplitGetClearedBalance", "xaccSplitGetReconciledBalance",
   "xaccSplitGetShareBalance", "xaccSplitGetParent", "xaccSplitGetAccount",
   "xaccSplitGetMemo", "xaccSplitGetAction", "xaccSplitGetShareAmount",
   "xaccSplitGetValue", "xaccSplitGetSharePrice"}

TransGetters ==
  {"xaccTransGetNum", "xaccTransGetDescription", "xaccTransGetDate",
   "xaccTransCountSplits"}

SplitGet(w, name, s) ==
  CASE name = "xaccSplitGetBalance" -> xaccSplitGetBalance(w, s)
    [] name = "xaccSplitGetClearedBalance" -> xaccSplitGetClearedBalance(w, s)
    [] name = "xaccSplitGetReconciledBalance" -> xaccSplitGetReconciledBalance(w, s)
    [] name = "xaccSplitGetShareBalance" -> xaccSplitGetShareBalance(w, s)
    [] name = "xaccSplitGetParent" -> xaccSplitGetParent(w, s)
    [] name = "xaccSplitGetAccount" -> xaccSplitGetAccount(w, s)
    [] name = "xaccSplitGetMemo" -> xaccSplitGetMemo(w, s)
    [] name = "xaccSplitGetAction" -> xaccSplitGetAction(w, s)
    [] name = "xaccSplitGetShareAmount" -> xaccSplitGetShareAmount(w, s)
    [] name = "xaccSplitGetValue" -> xaccSplitGetValue(w, s)
    [] name = "xaccSplitGetSharePrice" -> xaccSplitGetSharePrice(w, s)

TransGet(w, name, t) ==
  CASE name = "xaccTransGetNum" -> xaccTransGetNum(w, t)
    [] name = "xaccTransGetDescription" -> xaccTransGetDescription(w, t)
    [] name = "xaccTransGetDate" -> xaccTransGetDate(w, t)
    [] name = "xaccTransCountSplits" -> xaccTransCountSplits(w, t)

----------------------------------------------------------------------------
(* The state machine *)

UBOutcomes == {"trap", "null"}

World(ub) ==
  [splits |-> splits, trans |-> trans, accts |-> accts, journal |-> journal,
   fatal |-> fatal, calls |-> <<>>, force |-> force_double_entry,
   over |-> FALSE, ub |-> ub, rb |-> [depth |-> 0, log |-> <<>>]]

AmountInBounds(x) ==
  IsFinite(x) => (Abs(x[1]) <= MaxAmount * x[2] /\ x[2] <= MaxDen)

InBounds(w) == \A s \in SplitIds : AmountInBounds(w.splits[s].damount)

(* what the last step was: the operation, its transaction, its split, its  *)
(* first further argument x, and y: its second further argument, or what   *)
(* the operation found (AppendSplit: whether the transaction was balanced; *)
(* SplitDestroy: whether the split is the one the last operation appended; *)
(* CommitEdit: x the open flag, y whether the transaction was balanced)    *)
Op(op, t, s, x, y) == [op |-> op, t |-> t, s |-> s, x |-> x, y |-> y]

NoSplits == [s \in SplitIds |-> NoSplit]
NoTransactions == [t \in TransIds |-> NoTrans]
NoAccounts == [a \in AccIds |-> [open |-> 0, changed |-> 0, splits |-> <<>>]]

(* The step to the state w the operation leaves.  When the operation aborts *)
(* the process, its memory is gone: only the journal file, the reason and   *)
(* the calls made so far remain.                                            *)
Step(w, lst) ==
  /\ ~w.over
  /\ IF w.fatal = NoFatal
     THEN /\ InBounds(w)
          /\ splits' = w.splits
          /\ trans' = w.trans
          /\ accts' = w.accts
     ELSE /\ splits' = NoSplits
          /\ trans' = NoTransactions
          /\ accts' = NoAccounts
  /\ journal' = w.journal
  /\ fatal' = w.fatal
  /\ calls' = w.calls
  /\ nest' = w.rb.log
  /\ last' = lst
  /\ UNCHANGED force_double_entry

Running == fatal = NoFatal
LiveSplit(s) == splits[s].st = "live"
LiveTrans(t) == trans[t].st = "live"

(* the unit the rebalancer measures transaction t in: none when the source *)
(* split is in no account                                                  *)
ResolvedBase(t) ==
  LET s0 == trans[t].splits[1]
  IN  IF splits[s0].acc = NULL THEN NullStr ELSE ResolveBase(World("trap"), s0).ra

(* the value of split s in unit base: its quantity when base is the security *)
(* of its account, its quantity times its price otherwise                    *)
ValueIn(s, base) ==
  LET sp == splits[s]
  IN  IF /\ sp.acc # NULL
         /\ safe_strcmp(AccountTable[sp.acc].currency, base) # 0
         /\ safe_strcmp(AccountTable[sp.acc].security, base) = 0
      THEN sp.damount
      ELSE DMul(sp.damount, sp.share_price)

RECURSIVE SumFrom(_, _, _)
SumFrom(seq, base, i) ==
  IF i > Len(seq) THEN DZero ELSE DAdd(ValueIn(seq[i], base), SumFrom(seq, base, i + 1))

Balanced(t) == DEQ(SumFrom(trans[t].splits, ResolvedBase(t), 1), DZero)

(* whether an operation about to run on t finds it balanced *)
BalancedFlag(t) ==
  IF t # NULL /\ trans[t].st = "live" /\ Len(trans[t].splits) >= 1 /\ Balanced(t)
  THEN 1 ELSE 0

(* whether the last operation appended split s, new to any transaction, to *)
(* a balanced transaction, and returned                                    *)
AppendedLast(s) ==
  IF /\ last.op = "AppendSplit" /\ last.s = s /\ last.x = NULL /\ last.y = 1
     /\ splits[s].parent = last.t
  THEN 1 ELSE 0

Init ==
  /\ splits = NoSplits
  /\ trans = NoTransactions
  /\ accts = NoAccounts
  /\ journal = <<>>
  /\ force_double_entry = 0
  /\ fatal = NoFatal
  /\ calls = <<>>
  /\ nest = <<>>
  /\ last = Op("Init", NULL, NULL, NULL, NULL)

(* the application assigns the global before it uses the engine *)
SetForceDoubleEntry(v) ==
  /\ Running
  /\ last.op = "Init"
  /\ force_double_entry' = v
  /\ last' = Op("SetForceDoubleEntry", NULL, NULL, v, NULL)
  /\ UNCHANGED <<splits, trans, accts, journal, fatal, calls, nest>>

MallocTransaction ==
  /\ Running
  /\ Step(xaccMallocTransaction(World("trap")),
          Op("MallocTransaction", NULL, NewSplitId(World("trap")),
             NewTransId(World("trap")), NULL))

MallocSplit ==
  /\ Running
  /\ Step(xaccMallocSplit(World("trap")),
          Op("MallocSplit", NULL, NewSplitId(World("trap")), NULL, NULL))

(* the ledger puts a split into an account *)
AccountInsertSplit(a, s) ==
  /\ Running /\ LiveSplit(s)
  /\ Step(xaccAccountInsertSplit(World("trap"), a, s),
          Op("AccountInsertSplit", splits[s].parent, s, a, NULL))

(* the ledger sets or clears the account's defer-rebalance flag *)
AccountSetDefer(a, defer) ==
  /\ Running
  /\ Step([World("trap") EXCEPT !.accts[a].open =
             IF defer # 0 THEN SetBit(@, ACC_DEFER_REBALANCE)
             ELSE ClearBit(@, ACC_DEFER_REBALANCE)],
          Op("AccountSetDefer", NULL, NULL, a, defer))

BeginEdit(t, defer) ==
  /\ Running /\ LiveTrans(t)
  /\ Step(xaccTransBeginEdit(World("trap"), t, defer),
          Op("BeginEdit", t, NULL, defer, NULL))

CommitEdit(t, ub) ==
  /\ Running /\ LiveTrans(t)
  /\ Step(xaccTransCommitEdit(World(ub), t),
          Op("CommitEdit", t, NULL, trans[t].open, BalancedFlag(t)))

TransDestroy(t) ==
  /\ Running /\ LiveTrans(t)
  /\ Step(xaccTransDestroy(World("trap"), t), Op("TransDestroy", t, NULL, NULL, NULL))

SplitDestroy(s, ub) ==
  /\ Running /\ LiveSplit(s)
  /\ Step(xaccSplitDestroy(World(ub), s),
          Op("SplitDestroy", splits[s].parent, s, NULL, AppendedLast(s)))

AppendSplit(t, s, ub) ==
  /\ Running /\ LiveTrans(t) /\ LiveSplit(s)
  /\ Step(xaccTransAppendSplit(World(ub), t, s),
          Op("AppendSplit", t, s, splits[s].parent, BalancedFlag(t)))

SetShareAmount(s, amt) ==
  /\ Running /\ LiveSplit(s)
  /\ Step(xaccSplitSetShareAmount(World("trap"), s, amt),
          Op("SetShareAmount", splits[s].parent, s, amt, NULL))

SetSharePrice(s, price) ==
  /\ Running /\ LiveSplit(s)
  /\ Step(xaccSplitSetSharePrice(World("trap"), s, price),
          Op("SetSharePrice", splits[s].parent, s, price, NULL))

SetSharePriceAndAmount(s, price, amt) ==
  /\ Running /\ LiveSplit(s)
  /\ Step(xaccSplitSetSharePriceAndAmount(World("trap"), s, price, amt),
          Op("SetSharePriceAndAmount", splits[s].parent, s, price, amt))

SetValue(s, amt) ==
  /\ Running /\ LiveSplit(s)
  /\ Step(xaccSplitSetValue(World("trap"), s, amt),
          Op("SetValue", splits[s].parent, s, amt, NULL))

TransSetNum(t, str) ==
  /\ Running /\ LiveTrans(t)
  /\ Step(xaccTransSetNum(World("trap"), t, str), Op("TransSetNum", t, NULL, str, NULL))

TransSetDescription(t, str) ==
  /\ Running /\ LiveTrans(t)
  /\ Step(xaccTransSetDescription(World("trap"), t, str),
          Op("TransSetDescription", t, NULL, str, NULL))

TransSetMemo(t, str) ==
  /\ Running /\ LiveTrans(t)
  /\ Step(xaccTransSetMemo(World("trap"), t, str), Op("TransSetMemo", t, NULL, str, NULL))

TransSetAction(t, str) ==
  /\ Running /\ LiveTrans(t)
  /\ Step(xaccTransSetAction(World("trap"), t, str),
          Op("TransSetAction", t, NULL, str, NULL))

TransSetDateSecs(t, secs) ==
  /\ Running /\ LiveTrans(t)
  /\ Step(xaccTransSetDateSecs(World("trap"), t, secs),
          Op("TransSetDateSecs", t, NULL, secs, NULL))

SplitSetMemo(s, str) ==
  /\ Running /\ LiveSplit(s)
  /\ Step(xaccSplitSetMemo(World("trap"), s, str),
          Op("SplitSetMemo", splits[s].parent, s, str, NULL))

SplitSetAction(s, str) ==
  /\ Running /\ LiveSplit(s)
  /\ Step(xaccSplitSetAction(World("trap"), s, str),
          Op("SplitSetAction", splits[s].parent, s, str, NULL))

(* the accessors: the value returned is kept in last.x *)
GetOfSplit(name, s) ==
  /\ Running /\ (IF s = NULL THEN TRUE ELSE LiveSplit(s))
  /\ LET r == SplitGet(World("trap"), name, s)
     IN  Step([World("trap") EXCEPT !.fatal = r.fatal], Op(name, NULL, s, r.value, NULL))

(* the ledger gives split s the value v in unit u *)
SetBaseValue(s, v, u) ==
  /\ Running /\ LiveSplit(s)
  /\ Step(xaccSplitSetBaseValue(World("trap"), s, v, u),
          Op("SetBaseValue", NULL, s, v, u))

(* the ledger reads the value of split s in unit u: x is what it gets *)
GetBaseValue(s, u) ==
  /\ Running /\ LiveSplit(s)
  /\ LET r == xaccSplitGetBaseValue(World("trap"), s, u)
     IN  Step([World("trap") EXCEPT !.fatal = r.fatal],
              Op("GetBaseValue", NULL, s, r.value, u))

GetOfTrans(name, t, ub) ==
  /\ Running /\ (IF t = NULL THEN TRUE ELSE LiveTrans(t))
  /\ LET r == TransGet(World(ub), name, t)
     IN  Step([World(ub) EXCEPT !.fatal = r.fatal], Op(name, t, NULL, r.value, NULL))

TransGetSplit(t, i, ub) ==
  /\ Running /\ (IF t = NULL THEN TRUE ELSE LiveTrans(t))
  /\ LET r == xaccTransGetSplit(World(ub), t, i)
     IN  Step([World(ub) EXCEPT !.fatal = r.fatal],
              Op("xaccTransGetSplit", t, NULL, r.value, i))

----------------------------------------------------------------------------
(* Specifications.  Each one is the engine driven by one kind of client, on *)
(* transaction 1 unless the client needs two.                               *)

FirstTransaction ==
  trans[1].st = "unalloc" /\ splits[3].st = "unalloc" /\ MallocTransaction

SecondSplit == splits[2].st = "unalloc" /\ MallocSplit

(* SpecSession: the life of one transaction, edit sessions and teardown *)
NextSession ==
  \/ FirstTransaction
  \/ SecondSplit
  \/ TransSetNum(1, "a")
  \/ \E d \in {0, 1} : BeginEdit(1, d)
  \/ \E ub \in UBOutcomes : CommitEdit(1, ub)
  \/ TransDestroy(1)
  \/ \E s \in {1, 2}, ub \in UBOutcomes : SplitDestroy(s, ub)
  \/ \E s \in {1, 2}, ub \in UBOutcomes : AppendSplit(1, s, ub)
  \/ \E s \in {1, 2} : AccountInsertSplit(1, s)

SpecSession == Init /\ [][NextSession]_vars

(* SpecEnforce: one transaction of at most two splits, with and without     *)
(* double-entry enforcement, account 1 deferring rebalances or not          *)
NextEnforce ==
  \/ SetForceDoubleEntry(1)
  \/ FirstTransaction
  \/ SecondSplit
  \/ \E s \in {1, 2} : AccountInsertSplit(1, s)
  \/ \E d \in {0, 1} : AccountSetDefer(1, d)
  \/ \E d \in {0, 1} : trans[1].open = 0 /\ BeginEdit(1, d)
  \/ \E ub \in UBOutcomes : trans[1].open # 0 /\ CommitEdit(1, ub)
  \/ \E s \in {1, 2}, ub \in UBOutcomes : AppendSplit(1, s, ub)
  \/ \E s \in {1, 2} : SetShareAmount(s, <<1, 1>>)

SpecEnforce == Init /\ [][NextEnforce]_vars

(* SpecDefer: the quantity, price and value setters and appends, inside and *)
(* outside deferred sessions; split 3 is the one kept in account 1          *)
NextDefer ==
  \/ FirstTransaction
  \/ splits[3].st = "unalloc" /\ MallocSplit
  \/ AccountInsertSplit(1, 3)
  \/ \E d \in {0, 1} : AccountSetDefer(1, d)
  \/ \E d \in {0, 1} : trans[1].open = 0 /\ BeginEdit(1, d)
  \/ \E s \in SplitIds, ub \in UBOutcomes : AppendSplit(1, s, ub)
  \/ \E s \in SplitIds : SetShareAmount(s, <<1, 1>>)
  \/ SetSharePrice(3, <<2, 1>>)
  \/ SetSharePriceAndAmount(3, <<2, 1>>, <<1, 1>>)
  \/ SetValue(3, <<1, 1>>)

SpecDefer == Init /\ [][NextDefer]_vars

(* SpecRebal: splits added to and removed from one transaction *)
NextRebal ==
  \/ FirstTransaction
  \/ splits[3].st = "unalloc" /\ MallocSplit
  \/ \E d \in {0, 1} : trans[1].open = 0 /\ BeginEdit(1, d)
  \/ \E s \in SplitIds, ub \in UBOutcomes : SplitDestroy(s, ub)
  \/ \E s \in SplitIds, ub \in UBOutcomes : AppendSplit(1, s, ub)
  \/ \E s \in SplitIds : SetShareAmount(s, <<1, 1>>)
  \/ SetSharePrice(2, <<2, 1>>)
  \/ AccountInsertSplit(1, 3)

SpecRebal == Init /\ [][NextRebal]_vars

(* SpecStruct: splits moved between two transactions *)
NextStruct ==
  \/ SetForceDoubleEntry(1)
  \/ trans[2].st = "unalloc" /\ splits[3].st = "unalloc" /\ MallocTransaction
  \/ splits[3].st = "unalloc" /\ MallocSplit
  \/ \E s \in SplitIds, ub \in UBOutcomes : SplitDestroy(s, ub)
  \/ \E t \in {1, 2}, s \in SplitIds, ub \in UBOutcomes : AppendSplit(t, s, ub)
  \/ \E s \in SplitIds : SetShareAmount(s, <<1, 1>>)
  \/ \E t \in {1, 2} : TransDestroy(t)

SpecStruct == Init /\ [][NextStruct]_vars

(* SpecOrder: three transactions given posted times, numbers and            *)
(* descriptions, to be put in order                                         *)
NextOrder ==
  \/ trans[3].st = "unalloc" /\ MallocTransaction
  \/ \E t \in {1, 2, 3}, secs \in {1, 2} : TransSetDateSecs(t, secs)
  \/ \E t \in {1, 2, 3} : TransSetNum(t, "a")
  \/ \E t \in {1, 2, 3} : TransSetDescription(t, "a")

SpecOrder == Init /\ [][NextOrder]_vars

(* SpecCurrency: one transaction whose splits are put into accounts of      *)
(* different currencies and securities, with and without enforcement        *)
NextCurrency ==
  \/ SetForceDoubleEntry(1)
  \/ FirstTransaction
  \/ splits[3].st = "unalloc" /\ MallocSplit
  \/ \E a \in {2, 3, 4}, s \in SplitIds :
       splits[s].acc = NULL /\ AccountInsertSplit(a, s)
  \/ trans[1].open = 0 /\ BeginEdit(1, 0)
  \/ \E s \in SplitIds : splits[s].parent = NULL /\ AppendSplit(1, s, "trap")
  \/ \E s \in SplitIds : SetShareAmount(s, <<1, 1>>)

SpecCurrency == Init /\ [][NextCurrency]_vars

(* SpecDate: the dates of three transactions are changed while their *)
(* splits, and a fourth split that is appended to one of them, are in *)
(* one account                                                        *)
NextDate ==
  \/ trans[3].st = "unalloc" /\ MallocTransaction
  \/ trans[3].st = "live" /\ splits[4].st = "unalloc" /\ MallocSplit
  \/ \E s \in SplitIds : splits[s].acc = NULL /\ AccountInsertSplit(1, s)
  \/ \E t \in {2, 3} : trans[t].open = 0 /\ BeginEdit(t, 0)
  \/ \E t \in {1, 2, 3}, secs \in {1, 2} : TransSetDateSecs(t, secs)
  \/ \E t \in {2, 3} : splits[4].parent = NULL /\ AppendSplit(t, 4, "trap")

SpecDate == Init /\ [][NextDate]_vars

(* SpecLone: the quantity, price and value of the only split of a *)
(* transaction are set, with and without enforcement              *)
NextLone ==
  \/ SetForceDoubleEntry(1)
  \/ FirstTransaction
  \/ AccountInsertSplit(1, 1)
  \/ \E d \in {0, 1} : trans[1].open = 0 /\ BeginEdit(1, d)
  \/ \E ub \in UBOutcomes : trans[1].open # 0 /\ CommitEdit(1, ub)
  \/ \E amt \in {<<0, 1>>, <<1, 1>>} : SetShareAmount(1, amt)
  \/ \E price \in {<<0, 1>>, <<2, 1>>} : SetSharePrice(1, price)
  \/ \E amt \in {<<0, 1>>, <<1, 1>>} : SetValue(1, amt)

SpecLone == Init /\ [][NextLone]_vars

(* SpecCommit: the quantities of up to three splits of one transaction are *)
(* set inside a session, deferred or not, that is then committed           *)
NextCommit ==
  \/ SetForceDoubleEntry(1)
  \/ FirstTransaction
  \/ splits[3].st = "unalloc" /\ MallocSplit
  \/ \E s \in SplitIds : splits[s].acc = NULL /\ AccountInsertSplit(1, s)
  \/ \E d \in {0, 1} : trans[1].open = 0 /\ BeginEdit(1, d)
  \/ \E ub \in UBOutcomes : trans[1].open # 0 /\ CommitEdit(1, ub)
  \/ \E s \in SplitIds : splits[s].parent = NULL /\ AppendSplit(1, s, "trap")
  \/ \E s \in SplitIds : trans[1].open # 0 /\ SetShareAmount(s, <<1, 1>>)
  \/ trans[1].open # 0 /\ SetSharePrice(3, <<2, 1>>)

SpecCommit == Init /\ [][NextCommit]_vars

(* SpecCompare: transactions and splits with every combination of the *)
(* fields an ordering could read are compared                         *)

(* the caller compares two transactions: x is the result *)
TransOrderOf(ta, tb) ==
  /\ Running
  /\ (IF ta = NULL THEN TRUE ELSE LiveTrans(ta))
  /\ (IF tb = NULL THEN TRUE ELSE LiveTrans(tb))
  /\ Step(World("trap"),
          Op("TransOrder", ta, NULL, xaccTransOrder(World("trap"), ta, tb), tb))

(* the caller compares two splits: x is the result *)
SplitOrderOf(sa, sb) ==
  /\ Running
  /\ (IF sa = NULL THEN TRUE ELSE LiveSplit(sa))
  /\ (IF sb = NULL THEN TRUE ELSE LiveSplit(sb))
  /\ Step(World("trap"),
          Op("SplitOrder", NULL, sa, xaccSplitOrder(World("trap"), sa, sb), sb))

KeyStrings == {"", "a", "b"}
KeyTimes == {0, 1, 2}

(* transaction 1 with split 1 has the middle value in every field; split 2 *)
(* and, when it exists, its transaction 2 have any; split 3 is like split  *)
(* 1 and in no transaction                                                 *)
InitCompare ==
  /\ \E two \in BOOLEAN, sec, nsec \in KeyTimes, entered \in {0, 1},
        num, description, memo, action \in KeyStrings :
       /\ two \/ (sec = 1 /\ nsec = 1 /\ entered = 0 /\ num = "a" /\ description = "a")
       /\ trans = [t \in TransIds |->
                     IF t = 1
                     THEN [st |-> "live", num |-> "a", description |-> "a",
                           splits |-> <<1>>,
                           date_entered |-> [tv_sec |-> 0, tv_nsec |-> 0],
                           date_posted |-> [tv_sec |-> 1, tv_nsec |-> 1], open |-> 0]
                     ELSE IF t = 2 /\ two
                     THEN [st |-> "live", num |-> num, description |-> description,
                           splits |-> <<2>>,
                           date_entered |-> [tv_sec |-> entered, tv_nsec |-> 0],
                           date_posted |-> [tv_sec |-> sec, tv_nsec |-> nsec],
                           open |-> 0]
                     ELSE NoTrans]
       /\ splits = [s \in SplitIds |->
                      IF s = 1 THEN [InitSplit EXCEPT !.parent = 1, !.memo = "a",
                                                      !.action = "a"]
                      ELSE IF s = 2
                      THEN [InitSplit EXCEPT !.parent = IF two THEN 2 ELSE NULL,
                                             !.memo = memo, !.action = action]
                      ELSE [InitSplit EXCEPT !.memo = "a", !.action = "a"]]
  /\ accts = NoAccounts
  /\ journal = <<>>
  /\ force_double_entry = 0
  /\ fatal = NoFatal
  /\ calls = <<>>
  /\ nest = <<>>
  /\ last = Op("Init", NULL, NULL, NULL, NULL)

NextCompare ==
  \/ \E ta, tb \in {NULL, 1, 2} : TransOrderOf(ta, tb)
  \/ \E sa, sb \in {NULL, 1, 2, 3} : SplitOrderOf(sa, sb)
  \/ trans[2].open = 0 /\ BeginEdit(2, 0)
  \/ splits[3].parent = NULL /\ AppendSplit(2, 3, "trap")

SpecCompare == InitCompare /\ [][NextCompare]_vars

(* SpecResolve: enforcement is on from the start and the splits of one *)
(* transaction are put in accounts of every pair of units              *)
NextResolve ==
  \/ SetForceDoubleEntry(1)
  \/ force_double_entry = 1 /\ FirstTransaction
  \/ force_double_entry = 1 /\ splits[3].st = "unalloc" /\ MallocSplit
  \/ \E a \in {2, 3, 4, 5}, s \in SplitIds :
       splits[s].acc = NULL /\ AccountInsertSplit(a, s)
  \/ trans[1].open = 0 /\ BeginEdit(1, 0)
  \/ \E s \in SplitIds : splits[s].parent = NULL /\ AppendSplit(1, s, "trap")
  \/ \E s \in SplitIds : SetShareAmount(s, <<1, 1>>)

SpecResolve == Init /\ [][NextResolve]_vars

(* SpecBase: values given to and read from splits in units that do and *)
(* do not belong to their accounts                                     *)
BaseUnits == {NullStr, "", "USD", "IBM"}

NextBase ==
  \/ SetForceDoubleEntry(1)
  \/ splits[2].st = "unalloc" /\ MallocSplit
  \/ \E a \in {1, 2, 3}, s \in {1, 2} :
       splits[s].acc = NULL /\ AccountInsertSplit(a, s)
  \/ \E price \in {<<0, 1>>, <<2, 1>>} : SetSharePrice(1, price)
  \/ \E s \in {1, 2}, v \in {<<1, 1>>, <<2, 1>>}, u \in BaseUnits :
       SetBaseValue(s, v, u)
  \/ \E s \in {1, 2}, u \in BaseUnits : GetBaseValue(s, u)

SpecBase == Init /\ [][NextBase]_vars

(* SpecAbsorb: quantities and a zero price set in one transaction whose *)
(* splits are in accounts of two currencies and one security            *)
NextAbsorb ==
  \/ SetForceDoubleEntry(1)
  \/ FirstTransaction
  \/ splits[3].st = "unalloc" /\ MallocSplit
  \/ \E a \in {2, 4}, s \in SplitIds :
       splits[s].acc = NULL /\ AccountInsertSplit(a, s)
  \/ trans[1].open = 0 /\ BeginEdit(1, 0)
  \/ \E s \in SplitIds : splits[s].parent = NULL /\ AppendSplit(1, s, "trap")
  \/ \E s \in SplitIds : SetShareAmount(s, <<1, 1>>)
  \/ SetSharePrice(2, <<0, 1>>)

SpecAbsorb == Init /\ [][NextAbsorb]_vars

(* SpecField: the memo and action of a transaction of one to three splits *)
(* set through the transaction, with and without enforcement              *)
NextField ==
  \/ SetForceDoubleEntry(1)
  \/ FirstTransaction
  \/ splits[3].st = "unalloc" /\ MallocSplit
  \/ \E d \in {0, 1} : trans[1].open = 0 /\ BeginEdit(1, d)
  \/ \E s \in SplitIds : splits[s].parent = NULL /\ AppendSplit(1, s, "trap")
  \/ SetShareAmount(1, <<1, 1>>)
  \/ \E str \in {"a", "b"} : TransSetMemo(1, str)
  \/ TransSetAction(1, "a")

SpecField == Init /\ [][NextField]_vars

(* SpecRead: a transaction of one or two splits and a client that reads,   *)
(* through every accessor, that transaction, its splits and absent ones    *)
NextRead ==
  \/ FirstTransaction
  \/ SecondSplit
  \/ splits[2].parent = NULL /\ AppendSplit(1, 2, "trap")
  \/ SetShareAmount(2, <<1, 1>>)
  \/ TransSetNum(1, "a")
  \/ \E name \in SplitGetters, s \in {NULL, 1, 2} : GetOfSplit(name, s)
  \/ \E name \in TransGetters, t \in {NULL, 1}, ub \in UBOutcomes :
       GetOfTrans(name, t, ub)
  \/ \E t \in {NULL, 1}, i \in {-1, 0, 1, 2}, ub \in UBOutcomes : TransGetSplit(t, i, ub)

SpecRead == Init /\ [][NextRead]_vars

----------------------------------------------------------------------------
(* Properties *)

Closed == 0
Open == BEGIN_EDIT
OpenDeferred == SetBit(BEGIN_EDIT, DEFER_REBALANCE)

Deferred(t) == HasBit(trans[t].open, DEFER_REBALANCE)

AccountDeferred(s) ==
  splits[s].acc # NULL /\ HasBit(accts[splits[s].acc].open, ACC_DEFER_REBALANCE)

(* C2: an operation that changes a transaction, called on a transaction that *)
(* is Closed, is refused: the splits, the transactions and the journal stay  *)
(* as they were.                                                             *)
ClosedMutationRefused ==
  [][(/\ last'.op \in {"TransSetNum", "AppendSplit", "SplitDestroy",
                       "CommitEdit", "TransDestroy"}
      /\ last'.t # NULL
      /\ trans[last'.t].open = Closed)
     => UNCHANGED <<splits, trans, journal>>]_vars

(* C3: a live transaction is Closed, Open or OpenDeferred; a new one is      *)
(* Closed; BeginEdit on a Closed one gives Open for defer = 0 and            *)
(* OpenDeferred otherwise and appends exactly one 'B' record to the journal; *)
(* a CommitEdit that returns leaves the transaction Closed.                  *)
EditStateMachine ==
  [][/\ \A t \in TransIds :
          trans'[t].st = "live" => trans'[t].open \in {Closed, Open, OpenDeferred}
     /\ last'.op = "MallocTransaction" => trans'[last'.x].open = Closed
     /\ (last'.op = "BeginEdit" /\ trans[last'.t].open = Closed)
          => /\ trans'[last'.t].open = IF last'.x = 0 THEN Open ELSE OpenDeferred
             /\ journal' = Append(journal, [trans |-> last'.t, flag |-> "B"])
     /\ (last'.op = "CommitEdit" /\ fatal' = NoFatal)
          => /\ trans'[last'.t].open = Closed
             /\ ~HasBit(trans'[last'.t].open, DEFER_REBALANCE)]_vars

(* a deferred session was begun on a Closed transaction and is now open *)
SessionWitness ==
  /\ last.op = "BeginEdit"
  /\ last.x = 1
  /\ trans[last.t].open = OpenDeferred
  /\ journal = <<[trans |-> last.t, flag |-> "B"]>>

(* C10: SplitDestroy on a split of a transaction of one or two splits writes *)
(* one 'D' record, takes every split of the transaction out of its account   *)
(* and frees the transaction and all its splits.                             *)
SmallDestroyFreesAll ==
  [][(/\ last'.op = "SplitDestroy"
      /\ last'.t # NULL
      /\ Len(trans[last'.t].splits) <= 2
      /\ InSeq(trans[last'.t].splits, last'.s))
     => /\ fatal' = NoFatal
        /\ journal' = Append(journal, [trans |-> last'.t, flag |-> "D"])
        /\ trans'[last'.t].st = "freed"
        /\ \A i \in 1..Len(trans[last'.t].splits) :
             /\ splits'[trans[last'.t].splits[i]].st = "freed"
             /\ \A a \in AccIds : ~InSeq(accts'[a].splits, trans[last'.t].splits[i])
    ]_vars

(* C1: with enforcement on, the splits of a transaction that CommitEdit has *)
(* just returned on have values, in the resolved base unit, that sum to     *)
(* zero.                                                                    *)
CommitBalanced ==
  (/\ last.op = "CommitEdit"
   /\ fatal = NoFatal
   /\ force_double_entry = 1)
  => Balanced(last.t)

(* C7: with enforcement on, in an open session that is not deferred, setting *)
(* the quantity of the only split of a transaction (price 1, in an account   *)
(* that does not defer) to a non-zero q returns and leaves two splits: the   *)
(* source with q and a new split with -q, the memo and action of the source, *)
(* in the account of the source.                                             *)
AutoBalanceCreated ==
  [][(/\ last'.op = "SetShareAmount"
      /\ force_double_entry = 1
      /\ last'.t # NULL
      /\ trans[last'.t].open = Open
      /\ trans[last'.t].splits = <<last'.s>>
      /\ splits[last'.s].share_price = DOne
      /\ splits[last'.s].acc # NULL
      /\ ~AccountDeferred(last'.s)
      /\ ~DEQ(last'.x, DZero))
     => /\ fatal' = NoFatal
        /\ Len(trans'[last'.t].splits) = 2
        /\ trans'[last'.t].splits[1] = last'.s
        /\ splits'[last'.s].damount = last'.x
        /\ LET n == splits'[trans'[last'.t].splits[2]]
           IN  /\ splits[trans'[last'.t].splits[2]].st = "unalloc"
               /\ n.damount = DNeg(last'.x)
               /\ n.memo = splits[last'.s].memo
               /\ n.action = splits[last'.s].action
               /\ n.acc = splits[last'.s].acc
    ]_vars

(* the source split of a transaction as xaccMallocTransaction leaves it *)
FreshSource(t) ==
  /\ Len(trans[t].splits) = 1
  /\ splits[trans[t].splits[1]] = [InitSplit EXCEPT !.parent = t]

AppendBalances ==
  /\ fatal' = NoFatal
  /\ trans'[last'.t].splits = <<trans[last'.t].splits[1], last'.s>>
  /\ splits'[trans[last'.t].splits[1]].damount = DNeg(splits[last'.s].damount)
  /\ splits'[last'.s].damount = splits[last'.s].damount

(* C8, as stated: on a fresh transaction (one split, quantity 0) in an open *)
(* session that is not deferred, AppendSplit of a split of quantity q and   *)
(* price 1 leaves two splits, the source with -q and the appended with q.   *)
AppendToFresh ==
  [][(/\ last'.op = "AppendSplit"
      /\ trans[last'.t].open = Open
      /\ Len(trans[last'.t].splits) = 1
      /\ DEQ(splits[trans[last'.t].splits[1]].damount, DZero)
      /\ last'.x = NULL
      /\ splits[last'.s].share_price = DOne)
     => AppendBalances]_vars

(* C8, amended: the same with enforcement off, the source split as          *)
(* xaccMallocTransaction left it (no account, quantity 0, price 1), and the *)
(* appended split new to any transaction and in no account that defers      *)
(* rebalancing.                                                             *)
AppendToFreshUnenforced ==
  [][(/\ last'.op = "AppendSplit"
      /\ force_double_entry = 0
      /\ trans[last'.t].open = Open
      /\ FreshSource(last'.t)
      /\ last'.x = NULL
      /\ splits[last'.s].share_price = DOne
      /\ ~AccountDeferred(last'.s))
     => AppendBalances]_vars

(* a split of quantity 1 was appended to a two-split-to-be and the source *)
(* now carries -1                                                         *)
AppendWitness ==
  /\ last.op = "AppendSplit"
  /\ last.x = NULL
  /\ fatal = NoFatal
  /\ force_double_entry = 0
  /\ trans[last.t].open = Open
  /\ Len(trans[last.t].splits) = 2
  /\ trans[last.t].splits[2] = last.s
  /\ splits[last.s].damount = <<1, 1>>
  /\ splits[last.s].share_price = DOne
  /\ ~AccountDeferred(last.s)
  /\ splits[trans[last.t].splits[1]] =
       [InitSplit EXCEPT !.parent = last.t, !.damount = <<-1, 1>>]

(* every split but the one operated on keeps its quantity and price, and no *)
(* split comes into being                                                   *)
OthersUntouched ==
  /\ fatal' = NoFatal
  /\ \A r \in SplitIds \ {last'.s} :
       /\ splits'[r].st = splits[r].st
       /\ splits'[r].damount = splits[r].damount
       /\ splits'[r].share_price = splits[r].share_price

SetterOrAppend ==
  last'.op \in {"SetShareAmount", "SetSharePrice", "SetSharePriceAndAmount",
                "SetValue", "AppendSplit"}

(* the transaction the operation is on is OpenDeferred, or the account of *)
(* the split it is on defers rebalancing                                  *)
RebalanceDeferred ==
  \/ last'.t # NULL /\ Deferred(last'.t)
  \/ AccountDeferred(last'.s)

(* C6, as stated: while the transaction is OpenDeferred or the account of   *)
(* the split defers rebalancing, the quantity, price and value setters and  *)
(* AppendSplit change the quantity and price of no other split and create   *)
(* no split.  (Stated for an AppendSplit that does not take the last split  *)
(* of a transaction away: that case is C5's.)                               *)
DeferredIsNoOp ==
  [][(/\ SetterOrAppend
      /\ RebalanceDeferred
      /\ (last'.op = "AppendSplit" /\ last'.x # NULL)
            => Len(trans[last'.x].splits) > 1)
     => OthersUntouched]_vars

(* C6, amended: the same, for the setters and for AppendSplit of a split *)
(* that is in no transaction yet.                                        *)
DeferredIsNoOpForNewSplit ==
  [][(/\ SetterOrAppend
      /\ RebalanceDeferred
      /\ last'.op = "AppendSplit" => last'.x = NULL)
     => OthersUntouched]_vars

(* a split of non-zero quantity was appended in a deferred session and the *)
(* transaction was left unbalanced                                         *)
DeferredWitness ==
  /\ last.op = "AppendSplit"
  /\ last.x = NULL
  /\ fatal = NoFatal
  /\ Deferred(last.t)
  /\ Len(trans[last.t].splits) = 2
  /\ splits[last.s].damount = <<1, 1>>
  /\ ~Balanced(last.t)

(* what is left of the splits of the transaction once the destroyed one is out *)
Remaining == SeqRemove(trans[last'.t].splits, last'.s)

BalancedAfter ==
  LET rest == trans'[last'.t].splits
      s0 == rest[1]
      base == IF splits'[s0].acc = NULL THEN NullStr
              ELSE AccountTable[splits'[s0].acc].currency
      Value(s) == IF /\ splits'[s].acc # NULL
                     /\ safe_strcmp(AccountTable[splits'[s].acc].currency, base) # 0
                     /\ safe_strcmp(AccountTable[splits'[s].acc].security, base) = 0
                  THEN splits'[s].damount
                  ELSE DMul(splits'[s].damount, splits'[s].share_price)
      Sum[i \in 0..Len(rest)] == IF i = 0 THEN DZero ELSE DAdd(Sum[i - 1], Value(rest[i]))
  IN  DEQ(Sum[Len(rest)], DZero)

(* exactly the destroyed split is gone, the transaction lives on with the *)
(* others in their order, and what is left is balanced                    *)
ShrunkInPlace ==
  /\ fatal' = NoFatal
  /\ trans'[last'.t].st = "live"
  /\ trans'[last'.t].splits = Remaining
  /\ Len(trans'[last'.t].splits) = Len(trans[last'.t].splits) - 1
  /\ splits'[last'.s].st = "freed"
  /\ \A r \in SplitIds \ {last'.s} :
       /\ splits'[r].st = splits[r].st
       /\ splits'[r].parent = splits[r].parent
       /\ splits'[r].acc = splits[r].acc
  /\ \A a \in AccIds :
       accts'[a].splits = SeqRemove(accts[a].splits, last'.s)
  /\ BalancedAfter

DestroyOfMany ==
  /\ last'.op = "SplitDestroy"
  /\ last'.t # NULL
  /\ Len(trans[last'.t].splits) > 2

ParentIsHolder ==
  /\ \A s \in SplitIds, t \in TransIds :
       splits[s].st = "live"
         => (splits[s].parent = t <=> (trans[t].st = "live" /\ InSeq(trans[t].splits, s)))
  /\ \A t \in TransIds :
       \A i, j \in 1..Len(trans[t].splits) :
         /\ splits[trans[t].splits[i]].st = "live"
         /\ trans[t].splits[i] = trans[t].splits[j] => i = j
  /\ \A s \in SplitIds, t, u \in TransIds :
       (InSeq(trans[t].splits, s) /\ InSeq(trans[u].splits, s)) => t = u
  /\ fatal # "assert (ismember)"

(* a split was moved from one transaction into another *)
MovedWitness ==
  /\ last.op = "AppendSplit"
  /\ fatal = NoFatal
  /\ last.x # NULL
  /\ last.x # last.t
  /\ splits[last.s].parent = last.t
  /\ InSeq(trans[last.t].splits, last.s)
  /\ trans[last.x].st = "live"
  /\ Len(trans[last.x].splits) >= 1

(* C5: every live transaction holds at least one split, also the one that   *)
(* AppendSplit has just moved a split out of into another transaction, so    *)
(* that the rebalancer is never handed the first split of an empty sequence. *)
NeverEmpty ==
  ~(last.op = "AppendSplit" /\ last.x = last.t)
  => /\ \A t \in TransIds : trans[t].st = "live" => Len(trans[t].splits) >= 1
     /\ fatal # "null dereference"

(* SplitDestroy of the split that the last operation appended, new to any *)
(* transaction, to a balanced transaction                                 *)
RemoveOfAppended ==
  /\ last'.op = "SplitDestroy"
  /\ last'.y = 1

(* the transaction lives on with one split less, and what is left is balanced *)
CountAndBalanceRestored ==
  /\ fatal' = NoFatal
  /\ trans'[last'.t].st = "live"
  /\ Len(trans'[last'.t].splits) = Len(trans[last'.t].splits) - 1
  /\ BalancedAfter

Comparable == {NULL} \cup {t \in TransIds : trans[t].st = "live"}

TransOrder(a, b) == xaccTransOrder(World("trap"), a, b)

Sign(x) == IF x < 0 THEN -1 ELSE IF x > 0 THEN 1 ELSE 0

(* C12: xaccTransOrder is a consistent total preorder over the live           *)
(* transactions and the absent one: order(a,a) = 0, the sign of order(a,b) is *)
(* minus that of order(b,a), order(a,b) <= 0 and order(b,c) <= 0 give         *)
(* order(a,c) <= 0; and a transaction posted at an earlier second comes       *)
(* first.                                                                     *)
TransOrderIsPreorder ==
  /\ \A a \in Comparable : TransOrder(a, a) = 0
  /\ \A a, b \in Comparable : Sign(TransOrder(a, b)) = -Sign(TransOrder(b, a))
  /\ \A a, b, c \in Comparable :
       (TransOrder(a, b) <= 0 /\ TransOrder(b, c) <= 0) => TransOrder(a, c) <= 0
  /\ \A a, b \in Comparable \ {NULL} :
       trans[a].date_posted.tv_sec < trans[b].date_posted.tv_sec
         => TransOrder(a, b) < 0

(* three transactions posted at three different seconds, the last allocated *)
(* being the earliest, and two of them differing in num as well             *)
OrderWitness ==
  /\ \A t \in {1, 2, 3} : trans[t].st = "live"
  /\ trans[3].date_posted.tv_sec < trans[1].date_posted.tv_sec
  /\ trans[1].date_posted.tv_sec < trans[2].date_posted.tv_sec
  /\ trans[1].num # trans[2].num
  /\ TransOrder(3, 1) < 0 /\ TransOrder(1, 2) < 0 /\ TransOrder(3, 2) < 0

(* C13: with enforcement off, in an open session, no append, no quantity,   *)
(* price or value setter, no split removal and no CommitEdit ends in a       *)
(* failed assertion, whatever the accounts, currencies and securities of the *)
(* splits.                                                                   *)
UnenforcedNeverFatal ==
  [][(/\ force_double_entry = 0
      /\ last'.op \in {"AppendSplit", "SetShareAmount", "SetSharePrice",
                       "SetSharePriceAndAmount", "SetValue", "SplitDestroy",
                       "CommitEdit"}
      /\ last'.t # NULL
      /\ trans[last'.t].open = Open)
     => fatal' = NoFatal]_vars

(* what the spec has an accessor return for an absent split or transaction *)
AbsentValue(name) ==
  CASE name \in {"xaccSplitGetBalance", "xaccSplitGetClearedBalance",
                 "xaccSplitGetReconciledBalance", "xaccSplitGetShareBalance",
                 "xaccSplitGetShareAmount", "xaccSplitGetValue"} -> DZero
    [] name = "xaccSplitGetSharePrice" -> DOne
    [] name \in {"xaccSplitGetMemo", "xaccSplitGetAction", "xaccTransGetNum",
                 "xaccTransGetDescription"} -> NullStr
    [] name \in {"xaccSplitGetParent", "xaccSplitGetAccount", "xaccTransGetSplit"} -> NULL
    [] name \in {"xaccTransGetDate", "xaccTransCountSplits"} -> 0

(* C14: every accessor called on an absent split or transaction returns, and *)
(* returns the zero or absent value of its type (1 for the price).           *)
AbsentReadsDefined ==
  /\ (last.op \in SplitGetters /\ last.s = NULL)
       => (fatal = NoFatal /\ last.x = AbsentValue(last.op))
  /\ (last.op \in TransGetters \cup {"xaccTransGetSplit"} /\ last.t = NULL)
       => (fatal = NoFatal /\ last.x = AbsentValue(last.op))

(* the splits after the text was written to the source split and, in a *)
(* transaction of exactly two splits, to the second split              *)
FieldWritten ==
  LET seq == trans[last'.t].splits
      Put(sp) == IF last'.op = "TransSetMemo" THEN [sp EXCEPT !.memo = last'.x]
                 ELSE [sp EXCEPT !.action = last'.x]
  IN  [s \in SplitIds |->
         IF s = seq[1] \/ (Len(seq) = 2 /\ s = seq[2]) THEN Put(splits[s])
         ELSE splits[s]]

TransFieldSetter ==
  /\ last'.op \in {"TransSetMemo", "TransSetAction"}
  /\ trans[last'.t].open # Closed
  /\ Len(trans[last'.t].splits) >= 1

(* C15, as stated: in an open session xaccTransSetMemo and                   *)
(* xaccTransSetAction write the text to the source split, and to the second  *)
(* split exactly when the transaction has two splits; no other memo or       *)
(* action, no quantity, no price and no split sequence changes.              *)
FieldSetterMirrors ==
  [][TransFieldSetter
     => (fatal' = NoFatal /\ splits' = FieldWritten /\ trans' = trans)]_vars

(* C15, outside the failing case: the same holds unless enforcement is on *)
(* and the transaction has a single split whose quantity is not zero.     *)
FieldSetterMirrorsPaired ==
  [][(/\ TransFieldSetter
      /\ \/ force_double_entry = 0
         \/ Len(trans[last'.t].splits) >= 2
         \/ DEQ(DZero, splits[trans[last'.t].splits[1]].damount))
     => (fatal' = NoFatal /\ splits' = FieldWritten /\ trans' = trans)]_vars

(* the collaborator calls that detach the splits of seq from their accounts, *)
(* one after the other                                                       *)
RECURSIVE DetachCalls(_, _)
DetachCalls(seq, i) ==
  IF i > Len(seq) THEN <<>>
  ELSE << [k |-> "remove", a |-> splits[seq[i]].acc, b |-> seq[i]],
          [k |-> "recompute", a |-> splits[seq[i]].acc, b |-> NULL] >>
       \o DetachCalls(seq, i + 1)

(* C16: xaccTransDestroy in an open session writes the 'D' record, then      *)
(* detaches every split of the transaction from its account, first to last,  *)
(* then frees the transaction and all its splits: no account holds a split   *)
(* of the transaction afterwards, the freed structures hold no field value,  *)
(* and no other split or transaction changes.                                *)
DestroyDetachesAll ==
  [][(last'.op = "TransDestroy" /\ trans[last'.t].open # Closed)
     => LET t == last'.t
            seq == trans[t].splits
        IN  /\ fatal' = NoFatal
            /\ journal' = Append(journal, [trans |-> t, flag |-> "D"])
            /\ calls' = <<[k |-> "log", a |-> t, b |-> trans[t].open]>>
                         \o DetachCalls(seq, 1)
            /\ trans' = [trans EXCEPT ![t] = FreedTrans]
            /\ splits' = [s \in SplitIds |->
                            IF InSeq(seq, s) THEN FreedSplit ELSE splits[s]]
            /\ \A a \in AccIds, i \in 1..Len(seq) : ~InSeq(accts'[a].splits, seq[i])
    ]_vars

(* a transaction of two splits, both in account 1, was destroyed in its *)
(* session                                                              *)
DestroyAllWitness ==
  /\ last.op = "TransDestroy"
  /\ fatal = NoFatal
  /\ journal = <<[trans |-> 1, flag |-> "B"], [trans |-> 1, flag |-> "D"]>>
  /\ Len(calls) = 5
  /\ calls[2] = [k |-> "remove", a |-> 1, b |-> 1]
  /\ calls[4] = [k |-> "remove", a |-> 1, b |-> 2]
  /\ trans[1].st = "freed"
  /\ accts[1].splits = <<>>

RECURSIVE CheckOrderCalls(_, _)
CheckOrderCalls(seq, i) ==
  IF i > Len(seq) THEN <<>>
  ELSE <<[k |-> "checkorder", a |-> splits[seq[i]].acc, b |-> seq[i]]>>
       \o CheckOrderCalls(seq, i + 1)

RECURSIVE RecomputeCalls(_, _)
RecomputeCalls(seq, i) ==
  IF i > Len(seq) THEN <<>>
  ELSE <<[k |-> "recompute", a |-> splits[seq[i]].acc, b |-> NULL]>>
       \o RecomputeCalls(seq, i + 1)

(* the rebalance of a commit has a split to force: there is a first *)
(* destination and the account of the source does not defer         *)
CommitForces ==
  /\ Len(trans[last'.t].splits) >= 2
  /\ ~AccountDeferred(trans[last'.t].splits[1])

(* C17: a xaccTransCommitEdit that returns from an open session, deferred or *)
(* not, has rebalanced from the source split with the deferral cleared (the  *)
(* first destination forced, its account balance recomputed, the values      *)
(* summing to zero), then checked the date order of every split in its       *)
(* account, then recomputed the balance of every split's account, then       *)
(* closed the transaction, and then written the one 'C' record, which the    *)
(* journal writer sees with the transaction Closed.                          *)
CommitStepsInOrder ==
  [][(/\ last'.op = "CommitEdit"
      /\ trans[last'.t].open # Closed
      /\ fatal' = NoFatal)
     => LET t == last'.t
            seq == trans[t].splits
        IN  /\ trans'[t].splits = seq
            /\ calls' = (IF CommitForces
                         THEN <<[k |-> "recompute", a |-> splits[seq[2]].acc, b |-> NULL]>>
                         ELSE <<>>)
                        \o CheckOrderCalls(seq, 1)
                        \o RecomputeCalls(seq, 1)
                        \o <<[k |-> "log", a |-> t, b |-> Closed]>>
            /\ CommitForces => BalancedAfter
            /\ trans'[t].open = Closed
            /\ journal' = Append(journal, [trans |-> t, flag |-> "C"])
    ]_vars

(* a deferred session that had left a transaction of two splits unbalanced *)
(* was committed, and the transaction is balanced                          *)
CommitWitness ==
  /\ last.op = "CommitEdit"
  /\ last.x = OpenDeferred
  /\ last.y = 0
  /\ fatal = NoFatal
  /\ Len(trans[last.t].splits) = 2
  /\ splits[trans[last.t].splits[1]].damount = <<1, 1>>
  /\ splits[trans[last.t].splits[2]].acc = 1
  /\ Balanced(last.t)
  /\ calls[Len(calls)] = [k |-> "log", a |-> last.t, b |-> Closed]

(* the unit a rebalance triggered by split x of the split array seq      *)
(* measures in: resolved with the account of x as the anchor, none when *)
(* x is in no account                                                   *)
BaseOf(x, seq) ==
  IF splits[x].acc = NULL THEN NullStr
  ELSE ResolveFrom(World("trap"), seq, 1, AccountTable[splits[x].acc].currency,
                   EmptyToNull(AccountTable[splits[x].acc].security)).ra

(* the split a rebalance triggered by x forces: the first destination when *)
(* x is the source, the source otherwise                                   *)
Absorber(seq, x) == IF seq[1] = x THEN seq[2] ELSE seq[1]

(* split a can be given a value in unit b: its account has b as currency or *)
(* security, or b is no unit (or a is in no account) and enforcement is off *)
Measures(a, b) ==
  IF splits[a].acc = NULL THEN force_double_entry = 0
  ELSE \/ safe_strcmp(AccountTable[splits[a].acc].currency, b) = 0
       \/ safe_strcmp(AccountTable[splits[a].acc].security, b) = 0
       \/ (b = NullStr /\ force_double_entry = 0)

(* split a is valued in unit b by its price *)
ByPrice(a, b) ==
  \/ splits[a].acc = NULL
  \/ safe_strcmp(AccountTable[splits[a].acc].currency, b) = 0
  \/ safe_strcmp(AccountTable[splits[a].acc].security, b) # 0

(* a quantity or price setter, or an append of a split that was in no  *)
(* transaction, has returned, the transaction is Open and has two      *)
(* splits or more, and the account of the split does not defer         *)
Triggered ==
  /\ last'.op \in {"SetShareAmount", "SetSharePrice", "AppendSplit"}
  /\ last'.op = "AppendSplit" => last'.x = NULL
  /\ fatal' = NoFatal
  /\ splits'[last'.s].parent # NULL
  /\ last'.op = "AppendSplit" => splits'[last'.s].parent = last'.t
  /\ trans[splits'[last'.s].parent].open = Open
  /\ Len(trans'[splits'[last'.s].parent].splits) >= 2
  /\ ~AccountDeferred(last'.s)

(* every split but a has the quantity and price it had, but for what the *)
(* setter wrote into x, and a has the price it had                       *)
OnlyAbsorberForced(a, x) ==
  /\ \A r \in SplitIds \ {a} :
       /\ splits'[r].damount =
            (IF r = x /\ last'.op = "SetShareAmount" THEN last'.x
             ELSE splits[r].damount)
       /\ splits'[r].share_price =
            (IF r = x /\ last'.op = "SetSharePrice" THEN last'.x
             ELSE splits[r].share_price)
  /\ splits'[a].share_price = splits[a].share_price

(* the values in unit b of the splits of seq sum to zero after the step *)
SumsToZeroAfter(seq, b) ==
  LET Value(s) == IF /\ splits'[s].acc # NULL
                     /\ safe_strcmp(AccountTable[splits'[s].acc].currency, b) # 0
                     /\ safe_strcmp(AccountTable[splits'[s].acc].security, b) = 0
                  THEN splits'[s].damount
                  ELSE DMul(splits'[s].damount, splits'[s].share_price)
      Sum[i \in 0..Len(seq)] == IF i = 0 THEN DZero ELSE DAdd(Sum[i - 1], Value(seq[i]))
  IN  DEQ(Sum[Len(seq)], DZero)

Inappropriate(s, u) ==
  /\ splits[s].acc # NULL
  /\ safe_strcmp(AccountTable[splits[s].acc].currency, u) # 0
  /\ safe_strcmp(AccountTable[splits[s].acc].security, u) # 0
  /\ (u # NullStr \/ force_double_entry # 0)

(* unit u is the currency or the security of the account of s *)
Appropriate(s, u) ==
  /\ splits[s].acc # NULL
  /\ \/ safe_strcmp(AccountTable[splits[s].acc].currency, u) = 0
     \/ safe_strcmp(AccountTable[splits[s].acc].security, u) = 0

(* C20: for a split in an account, xaccSplitSetBaseValue with a unit that  *)
(* is neither the currency nor the security of the account (a unit at all, *)
(* or enforcement on) reports an error and changes no split, and           *)
(* xaccSplitGetBaseValue returns 0 for such a unit; xaccSplitSetBaseValue  *)
(* with a unit of the account keeps the price, and xaccSplitGetBaseValue   *)
(* in the same unit right after it returns the value that was set when the *)
(* price is not 0.                                                         *)
BaseValueRoundTrip ==
  [][/\ (last'.op = "SetBaseValue" /\ Inappropriate(last'.s, last'.y))
        => /\ fatal' = NoFatal
           /\ calls' = <<[k |-> "error", a |-> last'.s, b |-> NULL]>>
           /\ splits' = splits
     /\ (last'.op = "GetBaseValue" /\ Inappropriate(last'.s, last'.y))
        => /\ fatal' = NoFatal
           /\ last'.x = DZero
           /\ splits' = splits
     /\ (last'.op = "SetBaseValue" /\ Appropriate(last'.s, last'.y))
        => /\ fatal' = NoFatal
           /\ calls' = <<>>
           /\ splits'[last'.s].share_price = splits[last'.s].share_price
     /\ (/\ last'.op = "GetBaseValue"
         /\ last.op = "SetBaseValue"
         /\ last'.s = last.s
         /\ last'.y = last.y
         /\ Appropriate(last.s, last.y)
         /\ ~DEQ(splits[last.s].share_price, DZero))
        => /\ fatal' = NoFatal
           /\ DEQ(last'.x, last.x)
           /\ splits' = splits
    ]_vars

(* under enforcement, a split of price 2 in the account USD/IBM was given *)
(* the value 2 in USD, holds the quantity 1, and 2 was read back          *)
BaseValueWitness ==
  /\ last.op = "GetBaseValue"
  /\ last.y = "USD"
  /\ last.x = <<2, 1>>
  /\ fatal = NoFatal
  /\ force_double_entry = 1
  /\ splits[last.s].acc = 2
  /\ splits[last.s].share_price = <<2, 1>>
  /\ splits[last.s].damount = <<1, 1>>

(* unit u is a unit (an empty security is none), and the currency or the *)
(* security of the account of every split of seq                         *)
CommonTo(u, seq) ==
  /\ u # NullStr
  /\ u # ""
  /\ \A i \in 1..Len(seq) :
       \/ AccountTable[splits[seq[i]].acc].currency = u
       \/ AccountTable[splits[seq[i]].acc].security = u

(* the split array the rebalance of the step runs over *)
ArrayOfStep ==
  IF last'.op = "AppendSplit" THEN Append(trans[last'.t].splits, last'.s)
  ELSE trans[last'.t].splits

(* under enforcement a quantity was set in, or a split that was in no   *)
(* transaction was appended to, an Open transaction whose splits are    *)
(* all in accounts                                                      *)
ResolvedStep ==
  /\ last'.op \in {"SetShareAmount", "AppendSplit"}
  /\ last'.op = "AppendSplit" => last'.x = NULL
  /\ force_double_entry # 0
  /\ last'.t # NULL
  /\ trans[last'.t].open = Open
  /\ \A i \in 1..Len(ArrayOfStep) : splits[ArrayOfStep[i]].acc # NULL
  /\ ~AccountDeferred(last'.s)

(* C19: with enforcement on, when the currency or the security of the     *)
(* anchor's account is a unit of the account of every split, in whatever  *)
(* order the splits are, the resolution ends with a unit of every split's *)
(* account as the base, and neither ComputeValue nor                      *)
(* xaccSplitSetBaseValue then meets a split whose account has not that    *)
(* unit; when neither unit of the anchor is common to all, and only then, *)
(* the rebalance stops on the no-common-currency error.                   *)
ResolutionFindsCommonUnit ==
  [][ResolvedStep
     => \A x \in {last'.s}, seq \in {ArrayOfStep} :
          \A b \in {BaseOf(x, seq)} :
            IF \/ CommonTo(AccountTable[splits[x].acc].currency, seq)
               \/ CommonTo(AccountTable[splits[x].acc].security, seq)
            THEN /\ CommonTo(b, seq)
                 /\ b \in {AccountTable[splits[x].acc].currency,
                            AccountTable[splits[x].acc].security}
                 /\ fatal' \notin {"no common split currencies",
                                   "inconsistent currencies"}
                 /\ \A i \in 1..Len(calls') : calls'[i].k # "error"
            ELSE fatal' = "no common split currencies"
    ]_vars

(* under enforcement a quantity was set in a destination of a transaction *)
(* of three splits in the accounts USD/IBM, EUR/IBM and IBM/USD, in any   *)
(* order: the base is IBM and the source took the opposite value          *)
ResolveWitness ==
  /\ last.op = "SetShareAmount"
  /\ fatal = NoFatal
  /\ force_double_entry = 1
  /\ Len(trans[1].splits) = 3
  /\ {splits[trans[1].splits[i]].acc : i \in 1..3} = {2, 4, 5}
  /\ trans[1].splits[1] # last.s
  /\ splits[last.s].parent = 1
  /\ BaseOf(last.s, trans[1].splits) = "IBM"
  /\ DEQ(SumFrom(trans[1].splits, "IBM", 1), DZero)
  /\ ~DEQ(splits[trans[1].splits[1]].damount, DZero)

(* an xaccTransAppendSplit of a present split to a present transaction *)
(* has returned                                                        *)
Appended ==
  /\ last'.op = "AppendSplit"
  /\ fatal' = NoFatal

(* C21, as stated: xaccTransAppendSplit(T, s) makes the split count of T  *)
(* one more, puts s last in T after the splits T had, in their order, and *)
(* makes T the parent of s; a prior parent P of s has one split less.     *)
AppendGrowsByOne ==
  [][Appended
     => /\ Len(trans'[last'.t].splits) = Len(trans[last'.t].splits) + 1
        /\ trans'[last'.t].splits = Append(trans[last'.t].splits, last'.s)
        /\ splits'[last'.s].parent = last'.t
        /\ last'.x # NULL
             => Len(trans'[last'.x].splits) = Len(trans[last'.x].splits) - 1
    ]_vars

(* C21, amended: xaccTransAppendSplit(T, s) puts s last in T after the   *)
(* other splits T had, in their order, and makes T the parent of s; the  *)
(* count of T is one more when s was not in T, and the same when it was. *)
(* A prior parent P other than T keeps its other splits in their order,  *)
(* one split less, and, where the rebalance from its source forces a     *)
(* split (two splits left, nothing deferred), their values sum to zero.  *)
AppendMovesToEnd ==
  [][Appended
     => \A t \in {last'.t}, x \in {last'.s}, P \in {last'.x} :
          /\ trans'[t].splits = Append(SeqRemove(trans[t].splits, x), x)
          /\ Len(trans'[t].splits) =
               Len(trans[t].splits) + (IF P = t THEN 0 ELSE 1)
          /\ splits'[x].parent = t
          /\ \A r \in SplitIds \ {x} : splits'[r].parent = splits[r].parent
          /\ (P # NULL /\ P # t)
               => /\ trans'[P].splits = SeqRemove(trans[P].splits, x)
                  /\ Len(trans'[P].splits) = Len(trans[P].splits) - 1
                  /\ (/\ Len(trans'[P].splits) >= 2
                      /\ ~Deferred(P)
                      /\ ~AccountDeferred(trans'[P].splits[1]))
                       => SumsToZeroAfter(trans'[P].splits, NullStr)
    ]_vars

(* a split was moved from a transaction that keeps another split to the *)
(* end of a transaction that had one                                    *)
AppendMovedWitness ==
  /\ last.op = "AppendSplit"
  /\ fatal = NoFatal
  /\ last.x # NULL
  /\ last.x # last.t
  /\ Len(trans[last.x].splits) = 1
  /\ Len(trans[last.t].splits) = 2
  /\ trans[last.t].splits[2] = last.s
  /\ splits[last.s].parent = last.t
  /\ splits[last.s].damount = <<1, 1>>

(* the first of the comparisons cs that differentiates, 0 when none does *)
FirstDiffering(cs) ==
  IF \A i \in 1..Len(cs) : cs[i] = 0 THEN 0
  ELSE cs[CHOOSE i \in 1..Len(cs) : cs[i] # 0 /\ \A j \in 1..(i - 1) : cs[j] = 0]

Compare(m, n) == IF m < n THEN -1 ELSE IF m > n THEN 1 ELSE 0

(* the order of a and b by presence, posted seconds, posted sub-seconds, *)
(* num and description                                                   *)
KeyOrder(a, b) ==
  IF a # NULL /\ b = NULL THEN -1
  ELSE IF a = NULL /\ b # NULL THEN 1
  ELSE IF a = NULL /\ b = NULL THEN 0
  ELSE FirstDiffering(<<Compare(trans[a].date_posted.tv_sec, trans[b].date_posted.tv_sec),
                        Compare(trans[a].date_posted.tv_nsec, trans[b].date_posted.tv_nsec),
                        safe_strcmp(trans[a].num, trans[b].num),
                        safe_strcmp(trans[a].description, trans[b].description)>>)

(* C22: xaccTransOrder(a, b) is the first differing of presence (a present *)
(* transaction before an absent one), posted seconds, posted sub-seconds,  *)
(* num and description, and 0 when the five agree, whatever date_entered,  *)
(* the edit state and the splits are.                                      *)
TransOrderByKeys ==
  /\ \A a, b \in Comparable : TransOrder(a, b) = KeyOrder(a, b)
  /\ last.op = "TransOrder" => last.x = KeyOrder(last.t, last.y)

(* two present transactions of equal posted time were compared, in an open *)
(* session of the second, which has more splits and another date_entered,  *)
(* and num decided against what description and the rest would give       *)
TransOrderWitness ==
  /\ last.op = "TransOrder"
  /\ last.t = 2 /\ last.y = 1
  /\ trans[2].date_posted = trans[1].date_posted
  /\ trans[2].date_entered.tv_sec > trans[1].date_entered.tv_sec
  /\ trans[2].open = Open
  /\ Len(trans[2].splits) = 2
  /\ trans[2].num = "" /\ trans[2].description = "b"
  /\ last.x = -1

(* the parent of a split that is compared: none for a split in no transaction *)
ParentOf(sa) == splits[sa].parent

(* C23: xaccSplitOrder of two present splits is the xaccTransOrder of their *)
(* parents when that is not 0; when the parents compare equal or are both   *)
(* absent it is the comparison of the memos, and when that is 0 of the      *)
(* actions; a present split comes before an absent one.                     *)
SplitOrderByParents ==
  last.op = "SplitOrder"
  => IF last.s # NULL /\ last.y = NULL THEN last.x = -1
     ELSE IF last.s = NULL /\ last.y # NULL THEN last.x = 1
     ELSE IF last.s = NULL /\ last.y = NULL THEN last.x = 0
     ELSE IF TransOrder(ParentOf(last.s), ParentOf(last.y)) # 0
     THEN last.x = TransOrder(ParentOf(last.s), ParentOf(last.y))
     ELSE last.x = FirstDiffering(<<safe_strcmp(splits[last.s].memo, splits[last.y].memo),
                                    safe_strcmp(splits[last.s].action,
                                                splits[last.y].action)>>)

(* two splits of different transactions that compare equal were compared, *)
(* and the memo decided against what the action would give                *)
SplitOrderWitness ==
  /\ last.op = "SplitOrder"
  /\ last.s = 2 /\ last.y = 1
  /\ ParentOf(2) = 2 /\ ParentOf(1) = 1
  /\ TransOrder(2, 1) = 0
  /\ splits[2].memo = "b" /\ splits[2].action = ""
  /\ last.x = 1

RECURSIVE ReinsertCalls(_, _)
ReinsertCalls(seq, i) ==
  IF i > Len(seq) THEN <<>>
  ELSE <<[k |-> "remove", a |-> splits[seq[i]].acc, b |-> seq[i]],
         [k |-> "insert", a |-> splits[seq[i]].acc, b |-> seq[i]]>>
       \o ReinsertCalls(seq, i + 1)

(* the posted second a split is filed under; a split in no transaction is *)
(* filed after all others, i.e. under a second above those that are set   *)
Filed(sp, tr, r) ==
  IF sp[r].parent = NULL THEN 3 ELSE tr[sp[r].parent].date_posted.tv_sec

FiledUnder(r) == Filed(splits', trans', r)

(* split x is in collection seq exactly once, after nothing of a later *)
(* second and before nothing of an earlier one                         *)
AtDatePosition(seq, x) ==
  \E p \in 1..Len(seq) :
    /\ seq[p] = x
    /\ \A i \in 1..Len(seq) : seq[i] = x => i = p
    /\ \A i \in 1..(p - 1) : FiledUnder(seq[i]) <= FiledUnder(x)
    /\ \A i \in (p + 1)..Len(seq) : FiledUnder(seq[i]) >= FiledUnder(x)

(* the splits of other transactions than t are in date order in the *)
(* collection of account a                                          *)
OthersInDateOrder(a, t) ==
  \A i, j \in 1..Len(accts[a].splits) :
    (/\ i < j
     /\ splits[accts[a].splits[i]].parent # t
     /\ splits[accts[a].splits[j]].parent # t)
    => Filed(splits, trans, accts[a].splits[i]) <= Filed(splits, trans, accts[a].splits[j])

(* xaccTransSetDateSecs has returned from an open session *)
DateSet ==
  /\ last'.op = "TransSetDateSecs"
  /\ trans[last'.t].open # Closed
  /\ fatal' = NoFatal

(* what it changed is the two seconds and the order of the account *)
(* collections, and its calls are a remove and an insert per split *)
DateFrame ==
  /\ trans' = [trans EXCEPT ![last'.t].date_entered.tv_sec = last'.x,
                            ![last'.t].date_posted.tv_sec = last'.x]
  /\ splits' = splits
  /\ journal' = journal
  /\ calls' = ReinsertCalls(trans[last'.t].splits, 1)
  /\ \A a \in AccIds :
       /\ Len(accts'[a].splits) = Len(accts[a].splits)
       /\ \A r \in SplitIds : InSeq(accts'[a].splits, r) <=> InSeq(accts[a].splits, r)

(* C24, as stated: xaccTransSetDateSecs sets the entered and the posted  *)
(* seconds, changes no sub-second, quantity, price or split sequence,    *)
(* removes and reinserts every split of the transaction in its account,  *)
(* and leaves each of them in the collection of its account once, at the *)
(* position of the new date.                                             *)
DateSetRefiles ==
  [][DateSet
     => /\ DateFrame
        /\ \A i \in 1..Len(trans[last'.t].splits) :
             \A x \in {trans[last'.t].splits[i]} :
               splits[x].acc # NULL => AtDatePosition(accts'[splits[x].acc].splits, x)
    ]_vars

(* The same holds of every such step that finds the splits of the other *)
(* transactions in date order in the collection.                        *)
DateSetRefilesOrdered ==
  [][DateSet
     => /\ DateFrame
        /\ \A i \in 1..Len(trans[last'.t].splits) :
             \A x \in {trans[last'.t].splits[i]} :
               (splits[x].acc # NULL /\ OthersInDateOrder(splits[x].acc, last'.t))
               => AtDatePosition(accts'[splits[x].acc].splits, x)
    ]_vars

(* the date of a transaction of two splits in one account was set in an *)
(* open session to a second later than that of another transaction in   *)
(* the account, and both splits were moved behind that one's split      *)
DateWitness ==
  /\ last.op = "TransSetDateSecs"
  /\ fatal = NoFatal
  /\ last.t = 2
  /\ trans[2].open = Open
  /\ trans[2].splits = <<2, 4>>
  /\ trans[2].date_posted.tv_sec = 2
  /\ trans[2].date_entered.tv_sec = 2
  /\ trans[1].date_posted.tv_sec = 1
  /\ accts[1].splits = <<3, 1, 2, 4>>

----------------------------------------------------------------------------
(* The lone split *)

(* the split a step rebalances from: the one a setter was given, the *)
(* source split for a Commit                                          *)
RebalancedSplit ==
  IF last'.op = "CommitEdit" THEN At(trans[last'.t].splits, 0) ELSE last'.s

(* the quantity and the price it has when the rebalance starts *)
QuantityAtRebalance(s) ==
  CASE last'.op = "SetShareAmount" -> last'.x
    [] last'.op = "SetSharePriceAndAmount" -> last'.y
    [] last'.op = "SetValue" -> DDiv(last'.x, splits[s].share_price)
    [] OTHER -> splits[s].damount

PriceAtRebalance(s) ==
  CASE last'.op \in {"SetSharePrice", "SetSharePriceAndAmount"} -> last'.x
    [] OTHER -> splits[s].share_price

(* with enforcement on, a setter or a Commit rebalances a transaction *)
(* whose only split is s                                              *)
LoneRebalance(s) ==
  /\ force_double_entry = 1
  /\ last'.op \in {"SetShareAmount", "SetSharePrice", "SetSharePriceAndAmount",
                   "SetValue", "CommitEdit"}
  /\ last'.t # NULL
  /\ s = RebalancedSplit
  /\ trans[last'.t].splits = <<s>>

(* the step returned, created no split and left every quantity and price *)
(* as the setter, if any, had put it                                     *)
NothingCreated(s) ==
  /\ fatal' = NoFatal
  /\ \A r \in SplitIds : splits'[r].st = splits[r].st
  /\ trans'[last'.t].splits = <<s>>
  /\ splits'[s].damount = QuantityAtRebalance(s)
  /\ splits'[s].share_price = PriceAtRebalance(s)
  /\ \A r \in SplitIds \ {s} :
       /\ splits'[r].damount = splits[r].damount
       /\ splits'[r].share_price = splits[r].share_price

----------------------------------------------------------------------------
(* The journal *)

(* the records of the journal that are about transaction t, in order *)
RecordsOf(t) == SelectSeq(journal, LAMBDA r : r.trans = t)

(* every 'C' and every 'D' record of seq has a 'B' record before it with *)
(* no 'C' record between them                                            *)
Bracketed(seq) ==
  \A i \in 1..Len(seq) :
    seq[i].flag \in {"C", "D"}
    => \E j \in 1..(i - 1) :
         /\ seq[j].flag = "B"
         /\ \A k \in (j + 1)..(i - 1) : seq[k].flag # "C"

(* C26: for every transaction the records of the journal form Begin/Commit *)
(* or Begin/Destroy brackets: every 'C' and every 'D' record comes after a *)
(* 'B' record of the same transaction that no earlier 'C' has closed, and  *)
(* at most one 'D' record is written for a transaction.                    *)
JournalBracketed ==
  \A t \in TransIds :
    /\ Bracketed(RecordsOf(t))
    /\ Cardinality({i \in 1..Len(RecordsOf(t)) : RecordsOf(t)[i].flag = "D"}) <= 1

----------------------------------------------------------------------------
(* What a Commit changes *)

(* C27: a returning xaccTransCommitEdit changes the quantity of no split  *)
(* but the first destination (index 1) of the transaction: the source     *)
(* split, the destinations at index 2 and higher and the splits of other  *)
(* transactions keep their quantity and price, whether the session was    *)
(* Open or OpenDeferred.                                                  *)
CommitForcesFirstDestinationOnly ==
  [][(last'.op = "CommitEdit" /\ fatal' = NoFatal)
     => \A r \in SplitIds :
          (splits[r].st = "live" /\ r # At(trans[last'.t].splits, 1))
          => /\ splits'[r].st = "live"
             /\ splits'[r].damount = splits[r].damount
             /\ splits'[r].share_price = splits[r].share_price
    ]_vars

(* a deferred session in which the quantities of the source split and of *)
(* the second destination were set to 1 was committed: the first         *)
(* destination now carries -2                                            *)
CommitChangedWitness ==
  /\ last.op = "CommitEdit"
  /\ last.x = OpenDeferred
  /\ fatal = NoFatal
  /\ trans[1].splits = <<1, 2, 3>>
  /\ splits[1].damount = <<1, 1>>
  /\ splits[3].damount = <<1, 1>>
  /\ splits[3].share_price = <<1, 1>>
  /\ splits[2].damount = <<-2, 1>>

----------------------------------------------------------------------------
(* The nesting of rebalances *)

(* C28: every call of xaccSplitRebalance ends: in every operation no     *)
(* rebalance runs more than one level below a top-level one, a nested    *)
(* rebalance takes the destination branch, and a split is created only   *)
(* right after a top-level rebalance found a lone source split, so that  *)
(* one top-level rebalance creates at most one split.                    *)
RebalanceNestsOnce ==
  \A i \in 1..Len(nest) :
    /\ nest[i].d \in {1, 2}
    /\ nest[i].d = 2 => nest[i].br = "destination"
    /\ nest[i].br = "create"
       => /\ i > 1
          /\ nest[i - 1] = [d |-> 1, br |-> "lone"]
          /\ i < Len(nest) => nest[i + 1].br # "create"

(* a setter's rebalance found a lone source split, created the balancing *)
(* split, and the append of that split ran a nested rebalance            *)
NestedWitness ==
  /\ last.op = "SetShareAmount"
  /\ nest = <<[d |-> 1, br |-> "lone"], [d |-> 1, br |-> "create"],
              [d |-> 2, br |-> "destination"]>>

====
